---- MODULE Spec2Model ----
(***************************************************************************)
(* Model of the agentic query router of my-ai-advisor-v3:                  *)
(*   backend/services/llm_service.py   determine_intent,                   *)
(*                                     generate_llm_response,              *)
(*                                     process_agentic_query               *)
(*   backend/cache_manager.py          CacheManager, _InMemoryTTLCache     *)
(*   backend/services/documents_service.py   retrieve_context              *)
(*                                                                         *)
(* Python strings are modelled as sequences of atoms (chunks of text), so  *)
(* that lower(), strip(), replace() and the substring test `kw in text`    *)
(* are computed and not assumed.  Arabic keywords are written in an ASCII  *)
(* transliteration; the source line of each is given in the comments.      *)
(* Confidences are in hundredths (0.95 is 95) and may be NaN.              *)
(***************************************************************************)
EXTENDS Integers, Sequences, FiniteSets, TLC

VARIABLES
    question,           \* the question asked in this behaviour
    redisConfigured,    \* CacheManager._redis_client is set
    redis,              \* networked store: key -> [exp, val]
    mem,                \* _InMemoryTTLCache._store: key -> [exp, val]
    now,                \* time.time(), in seconds
    nCalls,             \* route calls started so far
    pc,                 \* position of the route call in progress
    redisUp,            \* the redis server answers
    user_id,            \* arguments of the call in progress
    is_demo,
    chat_history,
    raw_response,       \* local variable raw_response of determine_intent
    prediction,         \* IntentPrediction returned by determine_intent
    intent,             \* local variable intent of process_agentic_query
    fallback_triggered, \* local variable fallback_triggered
    context,            \* (context_str, source_info) of the rag branch
    calls,              \* collaborator and service calls made by this call
    response,           \* the LLMResponse returned, or NoResponse
    error,              \* the exception that left route, or "none"
    http,               \* the /chat request in progress: its body, stage and status
    lock,               \* _InMemoryTTLCache._lock: the thread holding it, or 0
    thr,                \* the threads inside _InMemoryTTLCache.get and set
    factory,            \* _client_factory: its primary and fallback clients
    limiter             \* RedisRateLimiter: _local_counts, and what it admitted

cfgVars   == <<question, redisConfigured, http, lock, thr, factory, limiter>>
cacheVars == <<redis, mem>>
callVars  == <<pc, redisUp, user_id, is_demo, chat_history, raw_response, prediction, intent,
               fallback_triggered, context, calls, response, error>>
vars      == <<cfgVars, cacheVars, now, nCalls, callVars>>

(***************************************************************************)
(* Bounds of the model.                                                    *)
(***************************************************************************)
MaxCalls == 2      \* route calls per behaviour
MaxTicks == 2      \* clock advances per behaviour

(***************************************************************************)
(* Program constants.                                                      *)
(***************************************************************************)
LLM_CACHE_TTL == 900
CACHE_TTL_SECONDS == 600
INTENT_FALLBACK_THRESHOLD == 70
KEYWORD_CONFIDENCE == 95
PARSE_DEFAULT_CONFIDENCE == 60
OUT_OF_ENUM_CAP == 50
HISTORY_WINDOW == 6
TickSeconds == 500

(***************************************************************************)
(* Strings as sequences of atoms.                                          *)
(***************************************************************************)
\* str.lower() on one atom
LowerAtom(a) ==
    CASE a = "GPA" -> "gpa"
      [] a = "Query" -> "query"
      [] a = "RAG" -> "rag"
      [] a = "General" -> "general"
      [] OTHER -> a

Lower(s) == [i \in 1..Len(s) |-> LowerAtom(s[i])]

IsSpace(a) == a \in {" ", "\n"}

RECURSIVE LStrip(_)
LStrip(s) == IF s # <<>> /\ IsSpace(Head(s)) THEN LStrip(Tail(s)) ELSE s

RECURSIVE RStrip(_)
RStrip(s) ==
    IF s # <<>> /\ IsSpace(s[Len(s)]) THEN RStrip(SubSeq(s, 1, Len(s) - 1)) ELSE s

\* str.strip()
Strip(s) == RStrip(LStrip(s))

\* str.replace(old, "") for a one-atom old
RECURSIVE Remove(_, _)
Remove(s, old) ==
    IF s = <<>> THEN <<>>
    ELSE IF Head(s) = old THEN Remove(Tail(s), old)
    ELSE <<Head(s)>> \o Remove(Tail(s), old)

\* str.replace(old, new) for one-atom old and new
Replace(s, old, new) == [i \in 1..Len(s) |-> IF s[i] = old THEN new ELSE s[i]]

\* `kw in s` : kw is a contiguous part of s
Contains(s, kw) ==
    \E i \in 1..(Len(s) + 1) :
        /\ i + Len(kw) - 1 <= Len(s)
        /\ SubSeq(s, i, i + Len(kw) - 1) = kw

\* .strip().lower().replace('.', '').replace(' ', '_')
NormalizeIntent(s) == Replace(Remove(Lower(Strip(s)), "."), " ", "_")

(***************************************************************************)
(* Intents.                                                                *)
(***************************************************************************)
query_rag        == <<"query", "_", "rag">>
analyze_progress == <<"analyze", "_", "progress">>
simulate_gpa     == <<"simulate", "_", "gpa">>
graph_query      == <<"graph", "_", "query">>
general_chat     == <<"general", "_", "chat">>
unknown          == <<"unknown">>

valid_intents == {query_rag, analyze_progress, simulate_gpa, graph_query, general_chat}

\* llm_service.py 37, the default
DEFAULT_FALLBACK_INTENT == query_rag

(***************************************************************************)
(* Texts (Python str) and the values json.loads makes of them.             *)
(*   Plain(s)          a text that is not JSON                             *)
(*   JsonObj(i, c)     the text of a JSON object with the members "intent" *)
(*                     (i.has: present, i.s: its string) and "confidence"  *)
(*                     (c.t: "num", "nan", "missing" or "bad": a value     *)
(*                     float() rejects)                                    *)
(*   JsonNum(n)        the text of a JSON number                           *)
(*   JsonPayload(c, s) json.dumps({"context": c, "source": s})             *)
(***************************************************************************)
Plain(s) == [k |-> "plain", s |-> s]
JsonObj(i, c) == [k |-> "jobj", intent |-> i, conf |-> c]
JsonNum(n) == [k |-> "jnum", n |-> n]
JsonPayload(c, s) == [k |-> "jpayload", context |-> c, source |-> s]

EmptyText == Plain(<<>>)

Member(s) == [has |-> TRUE, s |-> s]
NoMember == [has |-> FALSE, s |-> <<>>]
Num(n) == [t |-> "num", n |-> n]
NumNaN == [t |-> "nan", n |-> 0]
NumMissing == [t |-> "missing", n |-> 0]
NumBad == [t |-> "bad", n |-> 0]

\* Python values: None, a str, or the object json.loads built from a text
PyNone == [t |-> "none"]
PyStr(x) == [t |-> "str", x |-> x]
PyJson(x) == [t |-> "json", x |-> x]

\* json.loads(text) succeeds
JsonLoadable(x) == x.k # "plain"

\* bool(v)
Truthy(v) ==
    CASE v.t = "none" -> FALSE
      [] v.t = "str" -> v.x # EmptyText
      [] v.t = "json" ->
            CASE v.x.k = "jnum" -> v.x.n # 0
              [] OTHER -> TRUE       \* a dict with members

\* the characters of a text, as far as the intent test needs them: JSON
\* source text holds braces, digits or quotes and is never an intent name
SourceAtoms(x) == IF x.k = "plain" THEN x.s ELSE <<"<json source>">>

(***************************************************************************)
(* Floats with NaN; min() and max() as Python computes them.               *)
(***************************************************************************)
Float(n) == [nan |-> FALSE, n |-> n]
NaN == [nan |-> TRUE, n |-> 0]
PyLess(a, b) == ~a.nan /\ ~b.nan /\ a.n < b.n
\* min(a, b): a, unless b < a
PyMin(a, b) == IF PyLess(b, a) THEN b ELSE a
\* max(a, b): a, unless b > a
PyMax(a, b) == IF PyLess(a, b) THEN b ELSE a

(***************************************************************************)
(* FAQ table and keyword table (llm_service.py 64-67, 177-209).            *)
(***************************************************************************)
FAQ_KEY_1 == <<"mata akhir yawm lil-hadhf wal-idafa?">>
FAQ_KEY_2 == <<"ma hiya darajat al-najah fi maddat 101?">>

FAQ_DATABASE ==
    (FAQ_KEY_1 :> Plain(<<"akhir yawm huwa 20 fibrayir 2025.">>)) @@
    (FAQ_KEY_2 :> Plain(<<"darajat C aw 60%.">>))

\* in the order of the dict
INTENT_KEYWORDS == <<
    [name |-> analyze_progress,
     kws  |-> {<<"muaddal">>, <<"gpa">>, <<"alamati">>, <<"al-taqaddum">>,
               <<"al-saat">>, <<"remaining">>}],
    [name |-> simulate_gpa,
     kws  |-> {<<"muhakat">>, <<"tawaqqu">>, <<"expected", " ", "gpa">>,
               <<"ihsib", " ", "muaddal", "i">>}],
    [name |-> graph_query,
     kws  |-> {<<"maharat">>, <<"skills">>, <<"masar">>, <<"path">>,
               <<"takhassus">>, <<"tarabut">>}],
    [name |-> query_rag,
     kws  |-> {<<"laiha">>, <<"nizam">>, <<"qanun">>, <<"khutta">>,
               <<"muqarrar">>, <<"course", " ", "description">>, <<"lawaih">>}] >>

\* any(keyword in lowered for keyword in keywords)
KeywordMatch(lowered, i) == \E kw \in INTENT_KEYWORDS[i].kws : Contains(lowered, kw)

\* mutant: the last matching entry of the table wins
FirstKeywordIntent_lastWins(q) ==
    LET lowered == Lower(q)
        hits == {i \in 1..Len(INTENT_KEYWORDS) : KeywordMatch(lowered, i)}
    IN IF hits = {} THEN 0 ELSE CHOOSE i \in hits : \A j \in hits : i >= j

\* the for loop of determine_intent: index of the first entry that matches, or 0
FirstKeywordIntent(q) ==
    LET lowered == Lower(q)
        hits == {i \in 1..Len(INTENT_KEYWORDS) : KeywordMatch(lowered, i)}
    IN IF hits = {} THEN 0 ELSE CHOOSE i \in hits : \A j \in hits : i <= j

NoPrediction == [path |-> "none", intent |-> <<>>, confidence |-> 0]

\* lines 264-267
KeywordPrediction(q) ==
    [path |-> "keyword",
     intent |-> INTENT_KEYWORDS[FirstKeywordIntent(q)].name,
     confidence |-> KEYWORD_CONFIDENCE]

\* float(parsed.get("confidence", 0.6))
ConfidenceOf(c) ==
    CASE c.t = "num" -> Float(c.n)
      [] c.t = "nan" -> NaN
      [] c.t = "missing" -> Float(PARSE_DEFAULT_CONFIDENCE)

\* the try block of lines 286-290 raises: raw_response is not a str, is not
\* JSON, is JSON but no object, or its confidence is no number
TryRaises(raw) ==
    \/ raw.t # "str"
    \/ ~JsonLoadable(raw.x)
    \/ raw.x.k = "jnum"
    \/ raw.x.k = "jobj" /\ raw.x.conf.t = "bad"

\* the except block of lines 291-294 raises: raw_response has no strip()
ExceptRaises(raw) == raw.t # "str"

\* mutant: an intent outside the enum keeps the confidence the reply gave
ParseIntent_noCap(raw) ==
    LET parsedIntent ==
            IF raw.x.k = "jobj" /\ raw.x.intent.has
            THEN NormalizeIntent(raw.x.intent.s)
            ELSE <<>>
        parsedConf ==
            IF raw.x.k = "jobj" THEN ConfidenceOf(raw.x.conf)
            ELSE Float(PARSE_DEFAULT_CONFIDENCE)
        i0 == IF TryRaises(raw) THEN NormalizeIntent(SourceAtoms(raw.x)) ELSE parsedIntent
        c0 == IF TryRaises(raw) THEN Float(PARSE_DEFAULT_CONFIDENCE) ELSE parsedConf
        i1 == IF i0 \notin valid_intents THEN general_chat ELSE i0
        c2 == PyMax(Float(0), PyMin(c0, Float(100)))
    IN [path |-> "llm", intent |-> i1, confidence |-> c2.n]

\* lines 284-300, given the value generate_llm_response returned
ParseIntent(raw) ==
    LET parsedIntent ==
            IF raw.x.k = "jobj" /\ raw.x.intent.has
            THEN NormalizeIntent(raw.x.intent.s)
            ELSE <<>>
        parsedConf ==
            IF raw.x.k = "jobj" THEN ConfidenceOf(raw.x.conf)
            ELSE Float(PARSE_DEFAULT_CONFIDENCE)
        i0 == IF TryRaises(raw) THEN NormalizeIntent(SourceAtoms(raw.x)) ELSE parsedIntent
        c0 == IF TryRaises(raw) THEN Float(PARSE_DEFAULT_CONFIDENCE) ELSE parsedConf
        i1 == IF i0 \notin valid_intents THEN general_chat ELSE i0
        c1 == IF i0 \notin valid_intents THEN PyMin(c0, Float(OUT_OF_ENUM_CAP)) ELSE c0
        c2 == PyMax(Float(0), PyMin(c1, Float(100)))
    IN [path |-> "llm", intent |-> i1, confidence |-> c2.n]

(***************************************************************************)
(* Cache (cache_manager.py).  A store is a function from the keys it holds *)
(* to [exp, val]; val is the serialized text.                              *)
(***************************************************************************)
Without(f, key) == [k \in DOMAIN f \ {key} |-> f[k]]
With(f, key, e) == [k \in DOMAIN f \cup {key} |-> IF k = key THEN e ELSE f[k]]

\* _hash_key / _cache_key: the namespace and the SHA-256 digest of the text;
\* the digest is kept as the text it is the digest of
HashKey(namespace, payload) == [ns |-> namespace, digest |-> payload]

\* _InMemoryTTLCache.get: the value and the store it leaves
MemGet(m, key, t) ==
    IF key \notin DOMAIN m THEN [val |-> PyNone, mem |-> m]
    ELSE IF m[key].exp < t THEN [val |-> PyNone, mem |-> Without(m, key)]
    ELSE [val |-> PyStr(m[key].val), mem |-> m]

\* _InMemoryTTLCache.set
MemSet(m, key, text, ttl, t) == With(m, key, [exp |-> t + ttl, val |-> text])

\* redis GET: a key set with SETEX is gone ttl seconds after it was set
RedisHas(r, key, t) == key \in DOMAIN r /\ t < r[key].exp

\* CacheManager._serialize: a str as it is, anything else through json.dumps
Serialize(v) == v.x

\* CacheManager._deserialize of a stored text: json.loads, or the text itself
Deserialize(text) == IF JsonLoadable(text) THEN PyJson(text) ELSE PyStr(text)

\* CacheManager.get; redisOk: the redis call does not raise
CacheGet(c, key, t, redisOk) ==
    IF redisConfigured /\ redisOk /\ RedisHas(c.redis, key, t)
    THEN [val |-> Deserialize(c.redis[key].val), cache |-> c]
    ELSE LET g == MemGet(c.mem, key, t)
         IN [val |-> g.val, cache |-> [c EXCEPT !.mem = g.mem]]

\* mutant: a set whose redis call raises stores nothing
CacheSet_noFallback(c, key, v, ttl, t, redisOk) ==
    IF redisConfigured /\ ~redisOk THEN c
    ELSE IF redisConfigured
    THEN [c EXCEPT !.redis = With(c.redis, key, [exp |-> t + ttl, val |-> Serialize(v)])]
    ELSE [c EXCEPT !.mem = MemSet(c.mem, key, Serialize(v), ttl, t)]

\* CacheManager.set
CacheSet(c, key, v, ttl, t, redisOk) ==
    IF redisConfigured /\ redisOk
    THEN [c EXCEPT !.redis = With(c.redis, key, [exp |-> t + ttl, val |-> Serialize(v)])]
    ELSE [c EXCEPT !.mem = MemSet(c.mem, key, Serialize(v), ttl, t)]

Cache == [redis |-> redis, mem |-> mem]

(***************************************************************************)
(* generate_llm_response (llm_service.py 168-175).  g is what the          *)
(* environment does during the call: g.rget, g.rset: the redis calls do    *)
(* not raise; g.ok: the generation collaborator returns g.text.            *)
(***************************************************************************)
\* mutant: the failure of the collaborator is cached as an answer
GenerateLLM_cacheFailure(c, prompt, t, g) ==
    LET key == HashKey("llm:response", prompt)
        got == CacheGet(c, key, t, g.rget)
    IN IF Truthy(got.val)
       THEN [raised |-> FALSE, val |-> got.val, cache |-> got.cache, invoked |-> FALSE]
       ELSE IF ~g.ok
       THEN [raised |-> TRUE, val |-> PyNone,
             cache |-> CacheSet(got.cache, key, PyStr(Plain(<<"error">>)), LLM_CACHE_TTL, t,
                                g.rset),
             invoked |-> TRUE]
       ELSE [raised |-> FALSE, val |-> PyStr(g.text),
             cache |-> CacheSet(got.cache, key, PyStr(g.text), LLM_CACHE_TTL, t, g.rset),
             invoked |-> TRUE]

GenerateLLM(c, prompt, t, g) ==
    LET key == HashKey("llm:response", prompt)
        got == CacheGet(c, key, t, g.rget)
    IN IF Truthy(got.val)
       THEN [raised |-> FALSE, val |-> got.val, cache |-> got.cache, invoked |-> FALSE]
       ELSE IF ~g.ok
       THEN [raised |-> TRUE, val |-> PyNone, cache |-> got.cache, invoked |-> TRUE]
       ELSE [raised |-> FALSE, val |-> PyStr(g.text),
             cache |-> CacheSet(got.cache, key, PyStr(g.text), LLM_CACHE_TTL, t, g.rset),
             invoked |-> TRUE]

\* an entry of the log of calls a route call makes
Call(op, arg) == [op |-> op, arg |-> arg]

\* the calls a generate_llm_response makes: itself, the generation
\* collaborator on a miss, and the collaborator's failure
GenCalls(prompt, r) ==
    <<Call("generate_llm_response", prompt)>>
    \o (IF r.invoked THEN <<Call("llm", prompt)>> ELSE <<>>)
    \o (IF r.raised THEN <<Call("llm raised", prompt)>> ELSE <<>>)

(***************************************************************************)
(* retrieve_context (documents_service.py 274-322).  d is what the         *)
(* environment does: d.rget, d.rset as above; d.docs: "raise", "none" or   *)
(* "found", with d.context and d.source built from the documents.          *)
(***************************************************************************)
RetrieveContext(c, q, t, d) ==
    LET key == HashKey("rag:context", q)
        got == CacheGet(c, key, t, d.rget)
        payload == PyJson(JsonPayload(d.context, d.source))
    IN IF Truthy(got.val)
       THEN IF got.val.t = "json" /\ got.val.x.k = "jpayload"
            THEN [context |-> PyStr(got.val.x.context), source |-> got.val.x.source,
                  cache |-> got.cache, invoked |-> FALSE]
            ELSE \* cached.get raises AttributeError on a str: the except branch
                 [context |-> PyNone, source |-> "LLM (RAG Error)",
                  cache |-> got.cache, invoked |-> FALSE]
       ELSE CASE d.docs = "raise" ->
                 [context |-> PyNone, source |-> "LLM (RAG Error)",
                  cache |-> got.cache, invoked |-> TRUE]
              [] d.docs = "none" ->
                 [context |-> PyNone, source |-> "LLM (No RAG)",
                  cache |-> got.cache, invoked |-> TRUE]
              [] d.docs = "found" ->
                 [context |-> PyStr(d.context), source |-> d.source,
                  cache |-> CacheSet(got.cache, key, payload, CACHE_TTL_SECONDS, t, d.rset),
                  invoked |-> TRUE]

\* mutant: the except clause gives the error back as a skill
GetSkillsForCourse_errorAsSkill(graph) ==
    CASE graph = "raise" -> <<"Neo4jError">>
      [] graph = "empty" -> <<>>
      [] graph = "skills" -> <<"programming", "problem solving">>

(***************************************************************************)
(* get_skills_for_course (graph_service.py 126-155): every failure of the  *)
(* graph database is caught there and becomes the empty list.              *)
(***************************************************************************)
GetSkillsForCourse(graph) ==
    CASE graph = "raise" -> <<>>
      [] graph = "empty" -> <<>>
      [] graph = "skills" -> <<"programming", "problem solving">>

(***************************************************************************)
(* Inputs and what the environment may do.                                 *)
(***************************************************************************)
NoneUser == "<None>"
UserIds == {NoneUser, "", "s1"}
\* the (user_id, is_demo) pairs route is called with
Callers == {<<NoneUser, TRUE>>, <<NoneUser, FALSE>>, <<"", FALSE>>, <<"s1", FALSE>>, <<"s1", TRUE>>}

Turn(r, c) == [role |-> r, content |-> c]
Histories == {<<>>, <<Turn("user", "hello"), Turn("assistant", "welcome")>>}

Questions == {
    FAQ_KEY_1,
    FAQ_KEY_2,
    FAQ_KEY_1 \o <<" ">>,                      \* a FAQ key and a trailing blank
    <<"ma", " ", "GPA", " ", "fi", " ", "laiha">>,   \* analyze_progress and query_rag
    <<"ihsib", " ", "muaddal", "i">>,          \* a simulate_gpa phrase holding "muaddal"
    <<"muhakat">>,                             \* simulate_gpa
    <<"maharat", " ", "muqarrar">>,            \* graph_query and query_rag, both tokens
    <<"path">>,                                \* graph_query, heuristic does not fire
    <<"laiha">> }                              \* query_rag

\* replies of the LLM to the classification prompt
ClassifierReplies == {
    JsonObj(Member(graph_query), Num(90)),
    JsonObj(Member(analyze_progress), Num(82)),
    JsonObj(Member(query_rag), Num(70)),
    JsonObj(Member(general_chat), Num(69)),
    JsonObj(Member(general_chat), Num(100)),
    JsonObj(Member(simulate_gpa), Num(100)),
    JsonObj(Member(<<" ", "Query", " ", "RAG", ".", " ">>), Num(150)),
    JsonObj(Member(<<"weather">>), Num(90)),
    JsonObj(Member(<<"weather">>), Num(0 - 20)),
    JsonObj(Member(graph_query), NumNaN),
    JsonObj(Member(analyze_progress), NumMissing),
    JsonObj(Member(graph_query), NumBad),
    JsonObj(NoMember, Num(90)),
    Plain(general_chat),
    Plain(<<"General", " ", "chat", ".", "\n">>),
    Plain(<<"hello">>),
    EmptyText,
    JsonNum(7) }

AnswerTexts == {Plain(<<"answer">>), JsonNum(42)}

RedisOks == IF redisConfigured THEN BOOLEAN ELSE {TRUE}

\* what the generation collaborator may do during a route call
GenOutcomes(texts) ==
    {[rget |-> redisUp, rset |-> redisUp, ok |-> TRUE, text |-> x] : x \in texts}
    \cup {[rget |-> redisUp, rset |-> redisUp, ok |-> FALSE, text |-> EmptyText]}

\* what the retriever may do during a route call
RetrieveOutcomes ==
    {[rget |-> redisUp, rset |-> redisUp, docs |-> "found", context |-> x,
      source |-> "RAG (rules.pdf)"] : x \in {Plain(<<"article 5">>), EmptyText}}
    \cup {[rget |-> redisUp, rset |-> redisUp, docs |-> k, context |-> EmptyText,
           source |-> ""] : k \in {"raise", "none"}}

ProgressData == [current_gpa |-> 320, completed_hours |-> 60, remaining_courses_count |-> 4,
                 registerable_next_semester |-> <<>>, completed_courses |-> <<"CS101", "A">>]
NoData == [current_gpa |-> 0, completed_hours |-> 0, remaining_courses_count |-> 0,
           registerable_next_semester |-> <<>>, completed_courses |-> <<>>]

(***************************************************************************)
(* Prompts (llm_service.py 269-281, 382-393, 416-430, 459-465).            *)
(***************************************************************************)
RoleLabel(role) == IF role = "user" THEN "al-mustakhdim" ELSE "al-musaid"

\* mutant: the first six turns are kept instead of the last six
FormatHistory_firstSix(h) ==
    LET first == SubSeq(h, 1, IF Len(h) > HISTORY_WINDOW THEN HISTORY_WINDOW ELSE Len(h))
    IN [i \in 1..Len(first) |-> <<RoleLabel(first[i].role), first[i].content>>]

\* _format_history_for_prompt, lines 212-221: one line per turn of the last six
FormatHistory(h) ==
    LET first == IF Len(h) > HISTORY_WINDOW THEN Len(h) - HISTORY_WINDOW + 1 ELSE 1
        last == SubSeq(h, first, Len(h))
    IN [i \in 1..Len(last) |-> <<RoleLabel(last[i].role), last[i].content>>]

Prompt(kind, q, hist, ctx, data) ==
    [kind |-> kind, q |-> q, hist |-> hist, ctx |-> ctx, data |-> data]

ClassifyPrompt(q) == Prompt("classify", q, <<>>, EmptyText, NoData)
RagPrompt(q, h, ctx) == Prompt("rag", q, FormatHistory(h), ctx, NoData)
AnalysisPrompt(q, h, data) == Prompt("analysis", q, FormatHistory(h), EmptyText, data)
GeneralPrompt(q, h) == Prompt("general", q, FormatHistory(h), EmptyText, NoData)

(***************************************************************************)
(* Responses.                                                              *)
(***************************************************************************)
LLMResponse(a, s, i) == [answer |-> a, source |-> s, intent |-> i]
NoResponse == LLMResponse(EmptyText, "<no response>", <<>>)
NoContext == [context |-> PyNone, source |-> ""]

DEMO_ANSWER == Plain(<<"al-wad al-tajribi la yadam al-wusul ila bayanatik">>)
APOLOGY_ANSWER == Plain(<<"udhran, lam atamakkan min fahm niyyatik">>)
ErrorAnswer(e) == Plain(<<"hadatha khata athna tahlil taqaddum al-talib: ", e>>)

(***************************************************************************)
(* The state after construction: empty stores, no call in progress.        *)
(***************************************************************************)
EmptyStore == [k \in {} |-> [exp |-> 0, val |-> EmptyText]]

\* the rate-limit keys of the one client address
AuthKey == "auth:10.0.0.1"
ReqKey == "req:10.0.0.1"
RateKeys == {AuthKey, ReqKey}
NoRequestYet == [path |-> "", status |-> 0, checked |-> {}, allowed |-> {}]
\* RedisRateLimiter.__init__: _local_counts is empty; admitted keeps, for
\* each key, the times of the checks that were allowed
NewLimiter ==
    [counts |-> [k \in RateKeys |-> <<>>], admitted |-> [k \in RateKeys |-> <<>>],
     last |-> NoRequestYet]

\* _build_client: OpenAIClient() raises when OPENAI_API_KEY is not set
BuildClient(provider, hasKey) ==
    IF provider = "openai" /\ hasKey THEN "openai" ELSE "ollama"

\* LLMClientFactory.__init__ with LLM_PROVIDER = provider
LLMClientFactory(provider, hasKey) ==
    [provider |-> provider, hasKey |-> hasKey,
     primary |-> BuildClient(provider, hasKey),
     fallback |-> BuildClient(provider, hasKey) # "ollama"]

\* the default configuration: LLM_PROVIDER "openai" and no OPENAI_API_KEY
DefaultFactory == LLMClientFactory("openai", FALSE)

\* the threads that call the in-memory cache
Threads == {1, 2}
NoEntry == [has |-> FALSE, exp |-> 0, val |-> <<>>]
IdleThread ==
    [pc |-> "idle", key |-> HashKey("", <<>>), val |-> <<>>, ttl_seconds |-> 0, t0 |-> 0,
     expires_at |-> 0, entry |-> NoEntry]
\* no thread is inside the in-memory cache
NoThreads == lock = 0 /\ thr = [th \in Threads |-> IdleThread]

\* no /chat request has been received
NoRequest ==
    [stage |-> "none", status |-> 0, endpoint |-> FALSE, history_read |-> FALSE,
     routed |-> FALSE, persisted |-> FALSE]

IdleCall ==
    /\ pc = "idle"
    /\ redisUp = TRUE
    /\ user_id = NoneUser
    /\ is_demo = FALSE
    /\ chat_history = <<>>
    /\ raw_response = PyNone
    /\ prediction = NoPrediction
    /\ intent = <<>>
    /\ fallback_triggered = FALSE
    /\ context = NoContext
    /\ calls = <<>>
    /\ response = NoResponse
    /\ error = "none"

Init ==
    /\ http = NoRequest
    /\ NoThreads
    /\ factory = DefaultFactory
    /\ limiter = NewLimiter
    /\ question \in Questions
    /\ redisConfigured \in BOOLEAN
    /\ redis = EmptyStore
    /\ mem = EmptyStore
    /\ now = 0
    /\ nCalls = 0
    /\ IdleCall

SetCache(c) == redis' = c.redis /\ mem' = c.mem

\* leave route by an exception
Raise(e) == error' = e /\ response' = NoResponse /\ pc' = "done"

\* leave route by return
Return(r) == response' = r /\ error' = "none" /\ pc' = "done"

(***************************************************************************)
(* A call of process_agentic_query (llm_service.py 302-470).               *)
(***************************************************************************)
Route_Begin(u, d, h) ==
    /\ pc = "idle"
    /\ nCalls < MaxCalls
    /\ nCalls' = nCalls + 1
    /\ user_id' = u
    /\ is_demo' = d
    /\ chat_history' = h
    /\ pc' = "faq"
    /\ UNCHANGED <<cfgVars, cacheVars, now, redisUp, raw_response, prediction, intent,
                   fallback_triggered, context, calls, response, error>>

\* mutant: the FAQ table is consulted only for a conversation without history
CheckFAQ_onlyWithoutHistory ==
    /\ pc = "faq"
    /\ IF question \in DOMAIN FAQ_DATABASE /\ chat_history = <<>>
       THEN /\ Return(LLMResponse(FAQ_DATABASE[question], "FAQ Database", query_rag))
       ELSE /\ pc' = "classify"
            /\ UNCHANGED <<response, error>>
    /\ UNCHANGED <<cfgVars, cacheVars, now, nCalls, redisUp, user_id, is_demo, chat_history,
                   raw_response, prediction, intent, fallback_triggered, context, calls>>

\* mutant: the question is classified before the FAQ table answers
CheckFAQ_classifiedFirst ==
    /\ pc = "faq"
    /\ IF question \in DOMAIN FAQ_DATABASE
       THEN /\ Return(LLMResponse(FAQ_DATABASE[question], "FAQ Database", query_rag))
            /\ calls' = calls \o <<Call("determine_intent", question)>>
       ELSE /\ pc' = "classify"
            /\ UNCHANGED <<calls, response, error>>
    /\ UNCHANGED <<cfgVars, cacheVars, now, nCalls, redisUp, user_id, is_demo, chat_history,
                   raw_response, prediction, intent, fallback_triggered, context>>

\* lines 349-351
CheckFAQ ==
    /\ pc = "faq"
    /\ IF question \in DOMAIN FAQ_DATABASE
       THEN /\ Return(LLMResponse(FAQ_DATABASE[question], "FAQ Database", query_rag))
       ELSE /\ pc' = "classify"
            /\ UNCHANGED <<response, error>>
    /\ UNCHANGED <<cfgVars, cacheVars, now, nCalls, redisUp, user_id, is_demo, chat_history,
                   raw_response, prediction, intent, fallback_triggered, context, calls>>

\* determine_intent, lines 264-267: the keyword heuristic answers
ClassifyKeyword ==
    /\ pc = "classify"
    /\ FirstKeywordIntent(question) # 0
    /\ prediction' = KeywordPrediction(question)
    /\ calls' = calls \o <<Call("determine_intent", question)>>
    /\ pc' = "threshold"
    /\ UNCHANGED <<cfgVars, cacheVars, now, nCalls, redisUp, user_id, is_demo, chat_history,
                   raw_response, intent, fallback_triggered, context, response, error>>

\* mutant: a failed classification is taken as general_chat
ClassifyLLM_assumeGeneral(g) ==
    /\ pc = "classify"
    /\ FirstKeywordIntent(question) = 0
    /\ LET r == GenerateLLM(Cache, ClassifyPrompt(question), now, g)
       IN /\ SetCache(r.cache)
          /\ calls' = calls \o <<Call("determine_intent", question)>>
                            \o GenCalls(ClassifyPrompt(question), r)
          /\ raw_response' = r.val
          /\ prediction' = IF r.raised \/ (TryRaises(r.val) /\ ExceptRaises(r.val))
                           THEN [path |-> "llm", intent |-> general_chat, confidence |-> 100]
                           ELSE ParseIntent(r.val)
          /\ pc' = "threshold"
    /\ UNCHANGED <<cfgVars, now, nCalls, redisUp, user_id, is_demo, chat_history,
                   intent, fallback_triggered, context, response, error>>

\* determine_intent, lines 269-300: the LLM is asked
ClassifyLLM(g) ==
    /\ pc = "classify"
    /\ FirstKeywordIntent(question) = 0
    /\ LET r == GenerateLLM(Cache, ClassifyPrompt(question), now, g)
       IN /\ SetCache(r.cache)
          /\ calls' = calls \o <<Call("determine_intent", question)>>
                            \o GenCalls(ClassifyPrompt(question), r)
          /\ raw_response' = r.val
          /\ IF r.raised
             THEN Raise("GenerationError") /\ UNCHANGED prediction
             ELSE IF TryRaises(r.val) /\ ExceptRaises(r.val)
             THEN Raise("AttributeError") /\ UNCHANGED prediction
             ELSE /\ prediction' = ParseIntent(r.val)
                  /\ pc' = "threshold"
                  /\ UNCHANGED <<response, error>>
    /\ UNCHANGED <<cfgVars, now, nCalls, redisUp, user_id, is_demo, chat_history,
                   intent, fallback_triggered, context>>

\* mutant: a confidence equal to the threshold falls back too
Threshold_atMost ==
    /\ pc = "threshold"
    /\ IF prediction.confidence <= INTENT_FALLBACK_THRESHOLD
       THEN intent' = DEFAULT_FALLBACK_INTENT /\ fallback_triggered' = TRUE
       ELSE intent' = prediction.intent /\ fallback_triggered' = FALSE
    /\ pc' = "branch"
    /\ UNCHANGED <<cfgVars, cacheVars, now, nCalls, redisUp, user_id, is_demo, chat_history,
                   raw_response, prediction, context, calls, response, error>>

\* mutant: the fallback is taken below the confidence of an unparsed reply
Threshold_belowParseDefault ==
    /\ pc = "threshold"
    /\ IF prediction.confidence < PARSE_DEFAULT_CONFIDENCE
       THEN intent' = DEFAULT_FALLBACK_INTENT /\ fallback_triggered' = TRUE
       ELSE intent' = prediction.intent /\ fallback_triggered' = FALSE
    /\ pc' = "branch"
    /\ UNCHANGED <<cfgVars, cacheVars, now, nCalls, redisUp, user_id, is_demo, chat_history,
                   raw_response, prediction, context, calls, response, error>>

\* lines 355-366
Threshold ==
    /\ pc = "threshold"
    /\ IF prediction.confidence < INTENT_FALLBACK_THRESHOLD
       THEN intent' = DEFAULT_FALLBACK_INTENT /\ fallback_triggered' = TRUE
       ELSE intent' = prediction.intent /\ fallback_triggered' = FALSE
    /\ pc' = "branch"
    /\ UNCHANGED <<cfgVars, cacheVars, now, nCalls, redisUp, user_id, is_demo, chat_history,
                   raw_response, prediction, context, calls, response, error>>

\* mutant: a failed generation is answered with the apology
AnswerOrRaise_swallow(r, src, i) ==
    IF r.raised THEN Return(LLMResponse(APOLOGY_ANSWER, src, i))
    ELSE IF r.val.t # "str" THEN Raise("ValidationError")
    ELSE Return(LLMResponse(r.val.x, src, i))

\* the construction of LLMResponse from what generate_llm_response returned:
\* answer is declared str, and pydantic rejects any other value
AnswerOrRaise(r, src, i) ==
    IF r.raised THEN Raise("GenerationError")
    ELSE IF r.val.t # "str" THEN Raise("ValidationError")
    ELSE Return(LLMResponse(r.val.x, src, i))

\* mutant: if context_str is not None
HasContext_notNone(ctx) == ctx # PyNone

\* line 381: if context_str
HasContext(ctx) == Truthy(ctx)

\* lines 378-399
BranchRag(d, g) ==
    /\ pc = "branch"
    /\ intent = query_rag
    /\ LET rc == RetrieveContext(Cache, question, now, d)
           rcCalls == <<Call("retrieve_context", question)>>
                      \o (IF rc.invoked THEN <<Call("retriever", question)>> ELSE <<>>)
       IN /\ context' = [context |-> rc.context, source |-> rc.source]
          /\ IF HasContext(rc.context)
             THEN LET prompt == RagPrompt(question, chat_history, rc.context.x)
                      r == GenerateLLM(rc.cache, prompt, now, g)
                      src == IF fallback_triggered THEN rc.source \o " (Fallback)"
                             ELSE rc.source
                  IN /\ SetCache(r.cache)
                     /\ calls' = calls \o rcCalls \o GenCalls(prompt, r)
                     /\ AnswerOrRaise(r, src, intent)
                     /\ UNCHANGED intent
             ELSE /\ SetCache(rc.cache)
                  /\ calls' = calls \o rcCalls
                  /\ intent' = general_chat
                  /\ pc' = "general"
                  /\ UNCHANGED <<response, error>>
    /\ UNCHANGED <<cfgVars, now, nCalls, redisUp, user_id, is_demo, chat_history,
                   raw_response, prediction, fallback_triggered>>

\* mutant: if is_demo
DemoGuard_demoOnly == is_demo

\* line 404: if is_demo or not user_id
DemoGuard == is_demo \/ user_id \in {NoneUser, ""}

\* lines 402-409: the demo guard
BranchProgressDemo ==
    /\ pc = "branch"
    /\ intent = analyze_progress
    /\ DemoGuard
    /\ Return(LLMResponse(DEMO_ANSWER, "Demo Mode", intent))
    /\ UNCHANGED <<cfgVars, cacheVars, now, nCalls, redisUp, user_id, is_demo, chat_history,
                   raw_response, prediction, intent, fallback_triggered, context, calls>>

\* mutant: the exception is raised again
ProgressExcept_reraise(e) == Raise(e)

\* lines 433-434: except Exception as e
ProgressExcept(e) == Return(LLMResponse(ErrorAnswer(e), "Error", intent))

\* lines 411-434; a.ok: adapter.analyze_progress returns a.data
BranchProgress(a, g) ==
    /\ pc = "branch"
    /\ intent = analyze_progress
    /\ ~DemoGuard
    /\ IF ~a.ok
       THEN /\ calls' = calls \o <<Call("analyze_progress", user_id),
                                   Call("analyze_progress raised", user_id)>>
            /\ ProgressExcept("ServiceError")
            /\ UNCHANGED cacheVars
       ELSE LET prompt == AnalysisPrompt(question, chat_history, a.data)
                r == GenerateLLM(Cache, prompt, now, g)
            IN /\ SetCache(r.cache)
               /\ calls' = calls \o <<Call("analyze_progress", user_id)>> \o GenCalls(prompt, r)
               /\ IF r.raised
                  THEN ProgressExcept("GenerationError")
                  ELSE IF r.val.t # "str"
                  THEN ProgressExcept("ValidationError")
                  ELSE Return(LLMResponse(r.val.x, "Student Progress Service", intent))
    /\ UNCHANGED <<cfgVars, now, nCalls, redisUp, user_id, is_demo, chat_history,
                   raw_response, prediction, intent, fallback_triggered, context>>

\* line 442: the question names skills and a course
SkillsHeuristic(q) == Contains(q, <<"maharat">>) /\ Contains(q, <<"muqarrar">>)

\* mutant: the graph is asked whatever the question names
BranchGraph_always(graph) ==
    /\ pc = "branch"
    /\ intent = graph_query
    /\ LET skills == GetSkillsForCourse(graph)
       IN /\ calls' = calls \o <<Call("get_skills_for_course", "CS101")>>
                             \o (IF graph = "raise"
                                 THEN <<Call("graph raised", "CS101")>> ELSE <<>>)
                             \o <<Call("skills", skills)>>
          /\ IF skills # <<>>
             THEN /\ Return(LLMResponse(Plain(<<"al-muqarrar CS101 yudarris: ">> \o skills),
                                        "Graph DB (Neo4j)", intent))
                  /\ UNCHANGED intent
             ELSE /\ intent' = general_chat
                  /\ pc' = "general"
                  /\ UNCHANGED <<response, error>>
    /\ UNCHANGED <<cfgVars, cacheVars, now, nCalls, redisUp, user_id, is_demo, chat_history,
                   raw_response, prediction, fallback_triggered, context>>

\* lines 437-452
BranchGraph(graph) ==
    /\ pc = "branch"
    /\ intent = graph_query
    /\ IF SkillsHeuristic(question)
       THEN LET skills == GetSkillsForCourse(graph)
            IN /\ calls' = calls \o <<Call("get_skills_for_course", "CS101")>>
                                  \o (IF graph = "raise"
                                      THEN <<Call("graph raised", "CS101")>> ELSE <<>>)
                                  \o <<Call("skills", skills)>>
               /\ IF skills # <<>>
                  THEN /\ Return(LLMResponse(Plain(<<"al-muqarrar CS101 yudarris: ">> \o skills),
                                             "Graph DB (Neo4j)", intent))
                       /\ UNCHANGED intent
                  ELSE /\ intent' = general_chat
                       /\ pc' = "general"
                       /\ UNCHANGED <<response, error>>
       ELSE /\ intent' = general_chat
            /\ pc' = "general"
            /\ UNCHANGED <<calls, response, error>>
    /\ UNCHANGED <<cfgVars, cacheVars, now, nCalls, redisUp, user_id, is_demo, chat_history,
                   raw_response, prediction, fallback_triggered, context>>

\* no branch of the if / elif chain of lines 378-452 takes the intent
BranchNone ==
    /\ pc = "branch"
    /\ intent \notin {query_rag, analyze_progress, graph_query}
    /\ pc' = "general"
    /\ UNCHANGED <<cfgVars, cacheVars, now, nCalls, redisUp, user_id, is_demo, chat_history,
                   raw_response, prediction, intent, fallback_triggered, context, calls, response, error>>

\* lines 458-467
GeneralChat(g) ==
    /\ pc = "general"
    /\ intent = general_chat
    /\ LET prompt == GeneralPrompt(question, chat_history)
           r == GenerateLLM(Cache, prompt, now, g)
       IN /\ SetCache(r.cache)
          /\ calls' = calls \o GenCalls(prompt, r)
          /\ AnswerOrRaise(r, "LLM (General)", intent)
    /\ UNCHANGED <<cfgVars, now, nCalls, redisUp, user_id, is_demo, chat_history,
                   raw_response, prediction, intent, fallback_triggered, context>>

\* mutant: the unexpected state is routed again
AgentError_again ==
    /\ pc = "general"
    /\ intent # general_chat
    /\ pc' = "branch"
    /\ UNCHANGED <<cfgVars, cacheVars, now, nCalls, redisUp, user_id, is_demo, chat_history,
                   raw_response, prediction, intent, fallback_triggered, context, calls,
                   response, error>>

\* mutant: the terminal response keeps the intent that matched no branch
AgentError_keepsIntent ==
    /\ pc = "general"
    /\ intent # general_chat
    /\ Return(LLMResponse(APOLOGY_ANSWER, "Agent Error", intent))
    /\ UNCHANGED <<cfgVars, cacheVars, now, nCalls, redisUp, user_id, is_demo, chat_history,
                   raw_response, prediction, intent, fallback_triggered, context, calls>>

\* line 470
AgentError ==
    /\ pc = "general"
    /\ intent # general_chat
    /\ Return(LLMResponse(APOLOGY_ANSWER, "Agent Error", unknown))
    /\ UNCHANGED <<cfgVars, cacheVars, now, nCalls, redisUp, user_id, is_demo, chat_history,
                   raw_response, prediction, intent, fallback_triggered, context, calls>>

\* the caller has the result; the locals of the call are gone
Route_End ==
    /\ pc = "done"
    /\ pc' = "idle"
    /\ redisUp' = TRUE
    /\ user_id' = NoneUser
    /\ is_demo' = FALSE
    /\ chat_history' = <<>>
    /\ raw_response' = PyNone
    /\ prediction' = NoPrediction
    /\ intent' = <<>>
    /\ fallback_triggered' = FALSE
    /\ context' = NoContext
    /\ calls' = <<>>
    /\ response' = NoResponse
    /\ error' = "none"
    /\ UNCHANGED <<cfgVars, cacheVars, now, nCalls>>

\* time passes between calls; redis drops the keys whose SETEX time is over
Tick ==
    /\ pc = "idle"
    /\ now < MaxTicks * TickSeconds
    /\ now' = now + TickSeconds
    /\ redis' = [k \in {x \in DOMAIN redis : now' < redis[x].exp} |-> redis[k]]
    /\ UNCHANGED <<cfgVars, mem, nCalls, callVars>>

Next ==
    \/ \E c \in Callers, h \in Histories : Route_Begin(c[1], c[2], h)
    \/ CheckFAQ
    \/ ClassifyKeyword
    \/ \E g \in GenOutcomes(ClassifierReplies) : ClassifyLLM(g)
    \/ Threshold
    \/ \E d \in RetrieveOutcomes, g \in GenOutcomes(AnswerTexts) : BranchRag(d, g)
    \/ BranchProgressDemo
    \/ \E ok \in BOOLEAN, g \in GenOutcomes(AnswerTexts) :
            BranchProgress([ok |-> ok, data |-> ProgressData], g)
    \/ \E graph \in {"raise", "empty", "skills"} : BranchGraph(graph)
    \/ BranchNone
    \/ \E g \in GenOutcomes(AnswerTexts) : GeneralChat(g)
    \/ AgentError
    \/ Route_End

Spec == Init /\ [][Next]_vars

(***************************************************************************)
(* One route call from its begin to its return or raise.  Every            *)
(* collaborator call returns or raises and the event loop resumes the      *)
(* coroutine that awaits it: a step of the call in progress that stays     *)
(* possible is taken.  Nothing obliges a caller to begin a call.           *)
(***************************************************************************)
RouteStep ==
    \/ CheckFAQ
    \/ ClassifyKeyword
    \/ \E g \in GenOutcomes(ClassifierReplies) : ClassifyLLM(g)
    \/ Threshold
    \/ \E d \in RetrieveOutcomes, g \in GenOutcomes(AnswerTexts) : BranchRag(d, g)
    \/ BranchProgressDemo
    \/ \E ok \in BOOLEAN, g \in GenOutcomes(AnswerTexts) :
            BranchProgress([ok |-> ok, data |-> ProgressData], g)
    \/ \E graph \in {"raise", "empty", "skills"} : BranchGraph(graph)
    \/ BranchNone
    \/ \E g \in GenOutcomes(AnswerTexts) : GeneralChat(g)
    \/ AgentError

NextLive ==
    \/ \E c \in Callers, h \in Histories : Route_Begin(c[1], c[2], h)
    \/ RouteStep

SpecLive == Init /\ [][NextLive]_vars /\ WF_vars(RouteStep)

(***************************************************************************)
(* determine_intent alone, on every question of at most MaxWords atoms of  *)
(* a vocabulary that holds keywords of the four intents.                   *)
(***************************************************************************)
MaxWords == 3

Vocabulary == {"GPA", "gpa", "muaddal", "expected", " ", "muhakat", "maharat", "laiha",
               "marhaban"}

WordSeqs == UNION {[1..n -> Vocabulary] : n \in 0..MaxWords}

InitClassify ==
    /\ http = NoRequest
    /\ NoThreads
    /\ factory = DefaultFactory
    /\ limiter = NewLimiter
    /\ question \in WordSeqs
    /\ redisConfigured = FALSE
    /\ redis = EmptyStore
    /\ mem = EmptyStore
    /\ now = 0
    /\ nCalls = 1
    /\ pc = "classify"
    /\ redisUp = TRUE
    /\ user_id = NoneUser
    /\ is_demo = FALSE
    /\ chat_history = <<>>
    /\ raw_response = PyNone
    /\ prediction = NoPrediction
    /\ intent = <<>>
    /\ fallback_triggered = FALSE
    /\ context = NoContext
    /\ calls = <<>>
    /\ response = NoResponse
    /\ error = "none"

NextClassify ==
    \/ ClassifyKeyword
    \/ \E g \in GenOutcomes(ClassifierReplies) : ClassifyLLM(g)

SpecClassify == InitClassify /\ [][NextClassify]_vars

(***************************************************************************)
(* generate_llm_response alone: a caller makes up to MaxCalls calls on the *)
(* prompts of CachePrompts while time passes between the calls.  calls     *)
(* keeps, for each call, its prompt, its time, what it returned and        *)
(* whether it invoked the generation collaborator.                         *)
(***************************************************************************)
CachePrompts == {ClassifyPrompt(<<"path">>), GeneralPrompt(<<"path">>, <<>>)}

\* the answer texts of the collaborator: a sentence, the empty text, and the
\* JSON object the classify prompt asks for
CacheTexts == {Plain(<<"answer">>), EmptyText, JsonObj(query_rag, Num(90))}

\* what the environment may do during one generate_llm_response: each of the
\* two redis calls may raise, the collaborator may raise
CacheOutcomes ==
    {[rget |-> a, rset |-> b, ok |-> TRUE, text |-> x] :
        a \in RedisOks, b \in RedisOks, x \in CacheTexts}
    \cup {[rget |-> a, rset |-> TRUE, ok |-> FALSE, text |-> EmptyText] : a \in RedisOks}

InitCache ==
    /\ http = NoRequest
    /\ NoThreads
    /\ factory = DefaultFactory
    /\ limiter = NewLimiter
    /\ question = <<"path">>
    /\ redisConfigured \in BOOLEAN
    /\ redis = EmptyStore
    /\ mem = EmptyStore
    /\ now = 0
    /\ nCalls = 0
    /\ IdleCall

\* one call of generate_llm_response(prompt), from its first line to its return
GenerateCall(prompt, g) ==
    /\ pc = "idle"
    /\ nCalls < MaxCalls
    /\ LET r == GenerateLLM(Cache, prompt, now, g)
       IN /\ SetCache(r.cache)
          /\ calls' = Append(calls, [op |-> "generate_llm_response", arg |-> prompt,
                                     at |-> now, raised |-> r.raised, val |-> r.val,
                                     invoked |-> r.invoked])
    /\ nCalls' = nCalls + 1
    /\ UNCHANGED <<cfgVars, now, pc, redisUp, user_id, is_demo, chat_history, raw_response,
                   prediction, intent, fallback_triggered, context, response, error>>

NextCache ==
    \/ \E p \in CachePrompts, g \in CacheOutcomes : GenerateCall(p, g)
    \/ Tick

SpecCache == InitCache /\ [][NextCache]_vars

(***************************************************************************)
(* CacheManager alone: a caller makes up to MaxCalls calls of get and set  *)
(* on two keys while time passes and the redis calls may raise.  calls     *)
(* keeps, for each call, its key, its time, the value set or returned and  *)
(* whether the redis call went through.                                    *)
(***************************************************************************)
StoreKeys == {HashKey("llm:response", GeneralPrompt(<<"path">>, <<>>)),
              HashKey("rag:context", <<"laiha">>)}

\* the values the two callers of CacheManager.set give it: an answer text,
\* an answer text that json.loads accepts, and the {context, source} payload
StoreValues == {PyStr(Plain(<<"answer">>)),
                PyStr(JsonNum(42)),
                PyJson(JsonPayload(Plain(<<"article 5">>), "RAG (rules.pdf)"))}

\* the ttl_seconds each namespace is set with
StoreTTL(key) == IF key.ns = "llm:response" THEN LLM_CACHE_TTL ELSE CACHE_TTL_SECONDS

InitStore ==
    /\ http = NoRequest
    /\ NoThreads
    /\ factory = DefaultFactory
    /\ limiter = NewLimiter
    /\ question = <<"laiha">>
    /\ redisConfigured \in BOOLEAN
    /\ redis = EmptyStore
    /\ mem = EmptyStore
    /\ now = 0
    /\ nCalls = 0
    /\ IdleCall

\* cache_manager.set(key, v, ttl_seconds=StoreTTL(key)); ok: setex does not raise
CacheSetCall(key, v, ok) ==
    /\ pc = "idle"
    /\ nCalls < MaxCalls
    /\ SetCache(CacheSet(Cache, key, v, StoreTTL(key), now, ok))
    /\ calls' = Append(calls, [op |-> "set", arg |-> key, at |-> now, val |-> v, ok |-> ok])
    /\ nCalls' = nCalls + 1
    /\ UNCHANGED <<cfgVars, now, pc, redisUp, user_id, is_demo, chat_history, raw_response,
                   prediction, intent, fallback_triggered, context, response, error>>

\* cache_manager.get(key); ok: the redis get does not raise
CacheGetCall(key, ok) ==
    /\ pc = "idle"
    /\ nCalls < MaxCalls
    /\ LET g == CacheGet(Cache, key, now, ok)
       IN /\ SetCache(g.cache)
          /\ calls' = Append(calls, [op |-> "get", arg |-> key, at |-> now, val |-> g.val,
                                     ok |-> ok])
    /\ nCalls' = nCalls + 1
    /\ UNCHANGED <<cfgVars, now, pc, redisUp, user_id, is_demo, chat_history, raw_response,
                   prediction, intent, fallback_triggered, context, response, error>>

NextStore ==
    \/ \E key \in StoreKeys, v \in StoreValues, ok \in RedisOks : CacheSetCall(key, v, ok)
    \/ \E key \in StoreKeys, ok \in RedisOks : CacheGetCall(key, ok)
    \/ Tick

SpecStore == InitStore /\ [][NextStore]_vars

(***************************************************************************)
(* retrieve_context alone: callers make up to MaxCalls calls on the        *)
(* questions of RetrieveQuestions while time passes.  calls keeps, for     *)
(* each call, who made it, its question, its time, the pair it returned,   *)
(* whether it invoked the retriever and whether the retriever found        *)
(* documents.                                                              *)
(***************************************************************************)
RetrieveQuestions == {<<"laiha">>, <<"path">>}

\* the users on whose behalf route calls retrieve_context
RetrieveCallers == {"s1", "s2"}

\* what the environment may do during one retrieve_context: each of the two
\* redis calls may raise; the retriever raises, finds nothing or finds
\* documents
RetrieveCacheOutcomes ==
    {[rget |-> a, rset |-> b, docs |-> "found", context |-> Plain(<<"article 5">>),
      source |-> "RAG (rules.pdf)"] : a \in RedisOks, b \in RedisOks}
    \cup {[rget |-> a, rset |-> TRUE, docs |-> k, context |-> EmptyText, source |-> ""] :
            a \in RedisOks, k \in {"raise", "none"}}

InitRetrieve ==
    /\ http = NoRequest
    /\ NoThreads
    /\ factory = DefaultFactory
    /\ limiter = NewLimiter
    /\ question = <<"laiha">>
    /\ redisConfigured \in BOOLEAN
    /\ redis = EmptyStore
    /\ mem = EmptyStore
    /\ now = 0
    /\ nCalls = 0
    /\ IdleCall

\* one call of retrieve_context(q) made for user u
RetrieveCall(u, q, d) ==
    /\ pc = "idle"
    /\ nCalls < MaxCalls
    /\ LET r == RetrieveContext(Cache, q, now, d)
       IN /\ SetCache(r.cache)
          /\ calls' = Append(calls, [op |-> "retrieve_context", arg |-> q, by |-> u,
                                     at |-> now, context |-> r.context, source |-> r.source,
                                     invoked |-> r.invoked,
                                     found |-> r.invoked /\ d.docs = "found"])
    /\ nCalls' = nCalls + 1
    /\ UNCHANGED <<cfgVars, now, pc, redisUp, user_id, is_demo, chat_history, raw_response,
                   prediction, intent, fallback_triggered, context, response, error>>

NextRetrieve ==
    \/ \E u \in RetrieveCallers, q \in RetrieveQuestions, d \in RetrieveCacheOutcomes :
            RetrieveCall(u, q, d)
    \/ Tick

SpecRetrieve == InitRetrieve /\ [][NextRetrieve]_vars

(***************************************************************************)
(* The two cached operations together, generate_llm_response on one prompt *)
(* and retrieve_context on one question, while time passes.                *)
(***************************************************************************)
\* what the environment may do during one generate_llm_response here: the
\* redis calls may raise, the collaborator raises or returns an answer
ReadThroughOutcomes ==
    {[rget |-> a, rset |-> b, ok |-> TRUE, text |-> x] :
        a \in RedisOks, b \in RedisOks, x \in {Plain(<<"answer">>), EmptyText}}
    \cup {[rget |-> a, rset |-> TRUE, ok |-> FALSE, text |-> EmptyText] : a \in RedisOks}

InitReadThrough ==
    /\ http = NoRequest
    /\ NoThreads
    /\ factory = DefaultFactory
    /\ limiter = NewLimiter
    /\ question = <<"laiha">>
    /\ redisConfigured \in BOOLEAN
    /\ redis = EmptyStore
    /\ mem = EmptyStore
    /\ now = 0
    /\ nCalls = 0
    /\ IdleCall

NextReadThrough ==
    \/ \E g \in ReadThroughOutcomes : GenerateCall(GeneralPrompt(<<"laiha">>, <<>>), g)
    \/ \E d \in RetrieveCacheOutcomes : RetrieveCall("s1", <<"laiha">>, d)
    \/ Tick

SpecReadThrough == InitReadThrough /\ [][NextReadThrough]_vars

\* a store of the cache holds the key at time t
Present(c, key, t) ==
    \/ redisConfigured /\ RedisHas(c.redis, key, t)
    \/ key \in DOMAIN c.mem /\ ~(c.mem[key].exp < t)

(***************************************************************************)
(* Properties.                                                             *)
(***************************************************************************)
\* determine_intent has returned in the call in progress
Classified == prediction.path # "none"

\* the intent route branches on: the classified one, or the fallback intent
\* when the confidence is below the threshold
EffectiveIntent ==
    IF prediction.confidence < INTENT_FALLBACK_THRESHOLD
    THEN DEFAULT_FALLBACK_INTENT ELSE prediction.intent

Branched == Classified /\ pc \in {"branch", "general", "done"}

HasCall(op) == \E i \in 1..Len(calls) : calls[i].op = op

\* a call of generate_llm_response, or of the collaborator behind it, for an
\* answer (any prompt but the classification prompt)
AnswerGeneration(c) ==
    c.op \in {"generate_llm_response", "llm", "llm raised"} /\ c.arg.kind # "classify"

\* the generation collaborator failed while an answer was generated
AnswerGenerationFailed ==
    \E i \in 1..Len(calls) : calls[i].op = "llm raised" /\ calls[i].arg.kind # "classify"

Returned == pc = "done" /\ error = "none"

\* C1: when the effective intent is analyze_progress and the call is a demo
\* call or has no user id, the progress adapter is never called, no answer is
\* generated, and the response is the "Demo Mode" refusal with intent
\* analyze_progress.
C1_DemoGuard ==
    (Branched /\ EffectiveIntent = analyze_progress
        /\ (is_demo \/ user_id = NoneUser \/ user_id = ""))
    => /\ \A i \in 1..Len(calls) :
            calls[i].op # "analyze_progress" /\ ~AnswerGeneration(calls[i])
       /\ pc # "general"
       /\ pc = "done" =>
            /\ error = "none"
            /\ response.source = "Demo Mode"
            /\ response.intent = analyze_progress

C1_Witness ==
    /\ pc = "done"
    /\ Classified /\ EffectiveIntent = analyze_progress
    /\ ~is_demo /\ user_id = ""
    /\ response.source = "Demo Mode"

\* C2: a question equal to a key of the FAQ table is answered with the stored
\* answer, source "FAQ Database" and intent query_rag, whatever the history,
\* the caller and the classifier, and nothing is called for it.
C2_FaqShortCircuit ==
    /\ (pc = "done" /\ question = FAQ_KEY_1) =>
            /\ error = "none"
            /\ response = [answer |-> Plain(<<"akhir yawm huwa 20 fibrayir 2025.">>),
                           source |-> "FAQ Database", intent |-> query_rag]
            /\ calls = <<>>
    /\ (pc = "done" /\ question = FAQ_KEY_2) =>
            /\ error = "none"
            /\ response = [answer |-> Plain(<<"darajat C aw 60%.">>),
                           source |-> "FAQ Database", intent |-> query_rag]
            /\ calls = <<>>

C2_Witness ==
    /\ pc = "done"
    /\ question = FAQ_KEY_2
    /\ chat_history # <<>>
    /\ is_demo
    /\ response.source = "FAQ Database"

\* the labels retrieve_context gives to a context it found
RetrievedLabels == {"RAG (rules.pdf)"}

\* C3 as claimed: with a confidence below the threshold, the returned intent
\* is the default fallback intent and the source carries "(Fallback)".
C3_Claimed ==
    (Returned /\ Classified /\ prediction.confidence < INTENT_FALLBACK_THRESHOLD)
    => /\ response.intent = DEFAULT_FALLBACK_INTENT
       /\ \E l \in RetrievedLabels : response.source = l \o " (Fallback)"

\* C3 as amended: route branches on the fallback intent exactly when the
\* confidence is below the threshold; the response then has the fallback
\* intent and the retrieved label suffixed " (Fallback)" when a context was
\* retrieved, and is the general_chat response when none was.
C3_Fallback ==
    /\ Branched =>
            (fallback_triggered <=> prediction.confidence < INTENT_FALLBACK_THRESHOLD)
    /\ (pc = "branch" /\ Classified
            /\ prediction.confidence < INTENT_FALLBACK_THRESHOLD)
        => intent = DEFAULT_FALLBACK_INTENT
    /\ (Returned /\ Classified /\ prediction.confidence < INTENT_FALLBACK_THRESHOLD)
        => IF context.context.t = "str" /\ context.context.x # EmptyText
           THEN /\ response.intent = DEFAULT_FALLBACK_INTENT
                /\ response.source = context.source \o " (Fallback)"
                /\ context.source \in RetrievedLabels
           ELSE /\ response.intent = general_chat
                /\ response.source = "LLM (General)"

C3_Witness ==
    /\ Returned
    /\ Classified /\ prediction.confidence < INTENT_FALLBACK_THRESHOLD
    /\ response.source = "RAG (rules.pdf) (Fallback)"
    /\ response.intent = query_rag

\* C4: when the effective intent is query_rag and retrieve_context gives no
\* context (absent or empty), route asks generate_llm_response with the
\* conversational prompt, which holds no retrieved context, and the response
\* it returns has intent general_chat and source "LLM (General)"; nothing but
\* that generation call can make the call fail.
C4_EmptyContext ==
    (pc = "done" /\ Classified /\ EffectiveIntent = query_rag
        /\ (context.context = PyNone \/ context.context = PyStr(EmptyText)))
    => /\ \E i \in 1..Len(calls) :
            /\ calls[i].op = "generate_llm_response"
            /\ calls[i].arg.kind = "general"
            /\ calls[i].arg.ctx = EmptyText
       /\ \A i \in 1..Len(calls) :
            calls[i].op = "generate_llm_response" => calls[i].arg.kind \in {"classify", "general"}
       /\ error \in {"none", "GenerationError", "ValidationError"}
       /\ error = "none" =>
            /\ response.intent = general_chat
            /\ response.source = "LLM (General)"

C4_Witness ==
    /\ Returned
    /\ Classified /\ EffectiveIntent = query_rag
    /\ context.context = PyStr(EmptyText)
    /\ HasCall("retriever")
    /\ response.intent = general_chat

\* the replies whose intent, as determine_intent reads it, is outside the enum
C5_OutOfEnum == {
    JsonObj(Member(<<"weather">>), Num(90)),
    JsonObj(Member(<<"weather">>), Num(0 - 20)),
    JsonObj(Member(graph_query), NumBad),
    JsonObj(NoMember, Num(90)),
    Plain(<<"hello">>),
    EmptyText,
    JsonNum(7) }

\* C5: a reply of the LLM whose normalized intent is outside the enum gives
\* general_chat with a confidence of at most 0.5; every prediction
\* determine_intent returns has an intent of the enum and a confidence in
\* [0, 1]; a reply that needs normalizing is read as its intent.
C5_Normalization ==
    /\ (Classified /\ prediction.path = "llm" /\ raw_response.t = "str"
            /\ raw_response.x \in C5_OutOfEnum)
        => prediction.intent = general_chat /\ prediction.confidence <= 50
    /\ Classified =>
            /\ prediction.intent \in {<<"query", "_", "rag">>, <<"analyze", "_", "progress">>,
                                      <<"simulate", "_", "gpa">>, <<"graph", "_", "query">>,
                                      <<"general", "_", "chat">>}
            /\ prediction.confidence >= 0
            /\ prediction.confidence <= 100
    /\ (Classified /\ prediction.path = "llm"
            /\ raw_response = PyStr(JsonObj(Member(<<" ", "Query", " ", "RAG", ".", " ">>),
                                            Num(150))))
        => prediction.intent = query_rag /\ prediction.confidence = 100

C5_Witness ==
    /\ pc = "threshold"
    /\ raw_response = PyStr(JsonObj(Member(<<"weather">>), Num(90)))
    /\ prediction.intent = general_chat
    /\ prediction.confidence = 50

\* the order in which the keyword heuristic tests the intents
C6_Order == <<analyze_progress, simulate_gpa, graph_query, query_rag>>

\* the lowercased question holds a keyword registered for the intent
C6_Matches(name) ==
    \E i \in 1..Len(INTENT_KEYWORDS) :
        /\ INTENT_KEYWORDS[i].name = name
        /\ \E kw \in INTENT_KEYWORDS[i].kws : Contains(Lower(question), kw)

\* C6: the keyword heuristic returns the first intent, in the order
\* analyze_progress, simulate_gpa, graph_query, query_rag, that has a keyword
\* in the lowercased question, with confidence 0.95 and without a call of the
\* LLM; so a question with an analyze_progress keyword and a query_rag
\* keyword is classified analyze_progress.
C6_KeywordPrecedence ==
    /\ (Classified /\ \E k \in 1..4 : C6_Matches(C6_Order[k])) =>
            /\ prediction.path = "keyword"
            /\ prediction.confidence = 95
            /\ \E k \in 1..4 :
                    /\ prediction.intent = C6_Order[k]
                    /\ C6_Matches(C6_Order[k])
                    /\ \A j \in 1..(k - 1) : ~C6_Matches(C6_Order[j])
            /\ \A i \in 1..Len(calls) :
                    calls[i].op \in {"generate_llm_response", "llm"}
                        => calls[i].arg.kind # "classify"
    /\ (Classified /\ C6_Matches(analyze_progress) /\ C6_Matches(query_rag)) =>
            prediction = [path |-> "keyword", intent |-> analyze_progress, confidence |-> 95]
    /\ (Classified /\ ~\E k \in 1..4 : C6_Matches(C6_Order[k])) => prediction.path = "llm"

C6_Witness ==
    /\ pc = "threshold"
    /\ question = <<"laiha", " ", "GPA">>
    /\ prediction.intent = analyze_progress
    /\ calls = <<[op |-> "determine_intent", arg |-> question]>>

\* C7 as claimed: of two consecutive calls of generate_llm_response with the
\* same prompt, the second within the TTL window of the first, both return
\* the same answer and at most one invokes the generation collaborator.
C7_Claimed ==
    \A i \in 1..(Len(calls) - 1) :
        LET a == calls[i]
            b == calls[i + 1]
        IN (a.arg = b.arg /\ ~a.raised /\ ~b.raised /\ b.at < a.at + LLM_CACHE_TTL)
            => /\ a.val = b.val
               /\ ~(a.invoked /\ b.invoked)

\* C8 as claimed: an effective intent simulate_gpa ends in the general_chat
\* response, never in the terminal error response.
C8_Claimed ==
    (Returned /\ Classified /\ EffectiveIntent = simulate_gpa)
    => /\ response.intent = general_chat
       /\ response.source = "LLM (General)"

\* C9: when the adapter's analyze_progress raises in a call that passed the
\* demo guard, route returns the response with source "Error", intent
\* analyze_progress and an error message, and generates no answer.
C9_ProgressFailure ==
    (pc = "done" /\ HasCall("analyze_progress raised"))
    => /\ error = "none"
       /\ response.source = "Error"
       /\ response.intent = analyze_progress
       /\ response.answer.s[1] = "hadatha khata athna tahlil taqaddum al-talib: "
       /\ \A i \in 1..Len(calls) : ~AnswerGeneration(calls[i])
       /\ ~is_demo /\ user_id = "s1"
       /\ EffectiveIntent = analyze_progress

C9_Witness ==
    /\ pc = "done"
    /\ HasCall("analyze_progress raised")
    /\ response.source = "Error"

\* C10 as claimed: a failure of the answer generation leaves route as an
\* exception in every branch, and no response is returned.
C10_Claimed ==
    (pc = "done" /\ AnswerGenerationFailed)
    => error # "none" /\ response = NoResponse

\* C10 as amended: a failure of the answer generation leaves route as an
\* exception in the query_rag branch and in the general_chat branch; in the
\* analyze_progress branch it is caught and returned as the response with
\* source "Error".
C10_GenerationFailure ==
    (pc = "done" /\ AnswerGenerationFailed)
    => IF \E i \in 1..Len(calls) : calls[i].op = "llm raised" /\ calls[i].arg.kind = "analysis"
       THEN /\ error = "none"
            /\ response.source = "Error"
            /\ response.intent = analyze_progress
       ELSE /\ error = "GenerationError"
            /\ response = NoResponse

C10_Witness ==
    /\ pc = "done"
    /\ error = "GenerationError"
    /\ \E i \in 1..Len(calls) : calls[i].op = "llm raised" /\ calls[i].arg.kind = "rag"

\* the three operations of the service adapter
AdapterOps == {"retrieve_context", "analyze_progress", "get_skills_for_course"}

\* the generation collaborator failed while the question was classified
ClassificationFailed ==
    \E i \in 1..Len(calls) : calls[i].op = "llm raised" /\ calls[i].arg.kind = "classify"

\* C11: when the generation call of the classifier's LLM path raises (the
\* question matches no FAQ key and no keyword), the error leaves route: no
\* intent is assumed, no adapter operation is invoked, no response returned.
C11_ClassificationFailure ==
    ClassificationFailed
    => /\ pc = "done"
       /\ error = "GenerationError"
       /\ response = NoResponse
       /\ prediction = NoPrediction
       /\ intent = <<>>
       /\ \A i \in 1..Len(calls) : calls[i].op \notin AdapterOps
       /\ \A i \in 1..Len(calls) : ~AnswerGeneration(calls[i])
       /\ question \notin DOMAIN FAQ_DATABASE
       /\ FirstKeywordIntent(question) = 0

C11_Witness ==
    /\ ClassificationFailed
    /\ pc = "done"
    /\ error = "GenerationError"
    /\ Len(calls) = 4

\* get_skills_for_course returned the empty list in the call in progress
SkillsEmpty == \E i \in 1..Len(calls) : calls[i].op = "skills" /\ calls[i].arg = <<>>

\* get_skills_for_course returned skills in the call in progress
SkillsFound == \E i \in 1..Len(calls) : calls[i].op = "skills" /\ calls[i].arg # <<>>

\* the conversational prompt was given to generate_llm_response
GeneralGeneration ==
    \E i \in 1..Len(calls) :
        calls[i].op = "generate_llm_response" /\ calls[i].arg.kind = "general"

\* C12: with the effective intent graph_query, when the skills heuristic does
\* not fire (the adapter is then not asked) or the adapter returns the empty
\* list, route goes on as general_chat, asks generate_llm_response with the
\* conversational prompt and a response it returns has intent general_chat
\* and source "LLM (General)"; the graph response is returned exactly when
\* the heuristic fired and the list was not empty.
C12_GraphFallthrough ==
    (pc \in {"general", "done"} /\ Classified /\ EffectiveIntent = graph_query)
    => /\ ~SkillsHeuristic(question) => ~HasCall("get_skills_for_course")
       /\ SkillsHeuristic(question) => (SkillsEmpty \/ SkillsFound)
       /\ (~SkillsHeuristic(question) \/ SkillsEmpty)
            => /\ intent = general_chat
               /\ pc = "done" => GeneralGeneration
               /\ Returned => /\ response.intent = general_chat
                              /\ response.source = "LLM (General)"
       /\ (SkillsHeuristic(question) /\ SkillsFound)
            => /\ Returned
               /\ response.source = "Graph DB (Neo4j)"
               /\ response.intent = graph_query
               /\ ~GeneralGeneration

C12_Witness ==
    /\ Returned
    /\ Classified /\ EffectiveIntent = graph_query
    /\ SkillsHeuristic(question)
    /\ SkillsEmpty /\ ~HasCall("graph raised")
    /\ response.source = "LLM (General)"
    /\ response.intent = general_chat

\* C13: when the graph lookup fails in a call whose effective intent is
\* graph_query and whose heuristic fired, route goes on as general_chat: no
\* graph response and no error of the graph leaves route, and a response it
\* returns is the general_chat response.
C13_GraphFailure ==
    HasCall("graph raised")
    => /\ pc \in {"general", "done"}
       /\ EffectiveIntent = graph_query /\ SkillsHeuristic(question)
       /\ intent = general_chat
       /\ SkillsEmpty
       /\ pc = "done"
            => /\ GeneralGeneration
               /\ error \in {"none", "GenerationError", "ValidationError"}
               /\ error # "none" => \E i \in 1..Len(calls) :
                        calls[i].op \in {"llm raised", "generate_llm_response"}
                        /\ calls[i].arg.kind = "general"
               /\ error = "none" => /\ response.intent = general_chat
                                    /\ response.source = "LLM (General)"

C13_Witness ==
    /\ Returned
    /\ HasCall("graph raised")
    /\ response.source = "LLM (General)"
    /\ response.intent = general_chat

\* C14 as claimed: a value set while the redis calls raise is what a following
\* get of the same key returns while they still raise, within the ttl.
C14_Claimed ==
    \A i \in 1..(Len(calls) - 1) :
        LET s == calls[i]
            g == calls[i + 1]
        IN (redisConfigured /\ s.op = "set" /\ g.op = "get" /\ s.arg = g.arg
                /\ ~s.ok /\ ~g.ok /\ g.at < s.at + StoreTTL(s.arg))
            => g.val = s.val

\* C15 as claimed: when a retrieve_context found documents, the next
\* retrieve_context of the same question within the context ttl, by the same
\* or another user, returns the same (context, source) pair and does not
\* invoke the retriever.
C15_Claimed ==
    \A i \in 1..(Len(calls) - 1) :
        LET a == calls[i]
            b == calls[i + 1]
        IN (a.op = "retrieve_context" /\ b.op = "retrieve_context" /\ a.arg = b.arg
                /\ a.found /\ b.at < a.at + CACHE_TTL_SECONDS)
            => /\ b.context = a.context
               /\ b.source = a.source
               /\ ~b.invoked

\* the calls of operation op in the call in progress
CallsOf(op) == {i \in 1..Len(calls) : calls[i].op = op}

\* C16 as claimed: in a call that passed the demo guard with the effective
\* intent analyze_progress, whose adapter call and whose generation succeed,
\* the adapter is invoked once, with the user id of the call, the prompt
\* given to generate_llm_response embeds the data it returned, and the
\* response has what generate_llm_response returned as its answer, the
\* source "Student Progress Service" and the intent analyze_progress.
C16_Claimed ==
    (pc = "done" /\ Classified /\ EffectiveIntent = analyze_progress
        /\ ~is_demo /\ user_id \notin {NoneUser, ""}
        /\ ~HasCall("analyze_progress raised") /\ ~AnswerGenerationFailed)
    => /\ Cardinality(CallsOf("analyze_progress")) = 1
       /\ \A i \in CallsOf("analyze_progress") : calls[i].arg = user_id
       /\ \E i \in CallsOf("generate_llm_response") :
            calls[i].arg = AnalysisPrompt(question, chat_history, ProgressData)
       /\ error = "none"
       /\ response.source = "Student Progress Service"
       /\ response.intent = analyze_progress
       /\ response.answer \in AnswerTexts

\* the calls of generate_llm_response with a prompt of the given kinds
GenerationsOf(kinds) ==
    {i \in CallsOf("generate_llm_response") : calls[i].arg.kind \in kinds}

\* the bounds of C18 on the calls one route call makes
C18_Bounded ==
    /\ Cardinality(CallsOf("determine_intent")) <= 1
    /\ \A i \in CallsOf("determine_intent") : i = 1
    /\ Cardinality(GenerationsOf({"classify"})) <= 1
    /\ Cardinality(GenerationsOf({"rag", "analysis", "general"})) <= 1
    /\ Cardinality(CallsOf("generate_llm_response")) <= 2
    /\ Cardinality(CallsOf("llm")) <= 2
    /\ pc = "general" => GenerationsOf({"rag", "analysis", "general"}) = {}

\* C18: a route call that was begun ends (returns or raises); it asks the
\* classifier at most once, and first; it makes at most one generation call
\* for the classification and at most one for the answer, so at most two;
\* when it falls through to general_chat no answer was generated before.
C18_Termination ==
    /\ []C18_Bounded
    /\ (pc # "idle") ~> (pc = "done")

C18_Witness ==
    /\ Returned
    /\ Cardinality(CallsOf("generate_llm_response")) = 2
    /\ Cardinality(CallsOf("llm")) = 2
    /\ HasCall("retrieve_context")
    /\ response.source = "LLM (General)"

\* the position in calls of the first call of one of the operations, or 0
FirstOf(ops) ==
    IF \E i \in 1..Len(calls) : calls[i].op \in ops
    THEN CHOOSE i \in 1..Len(calls) :
            /\ calls[i].op \in ops
            /\ \A j \in 1..(i - 1) : calls[j].op \notin ops
    ELSE 0

\* the position in calls of the last call of one of the operations, or 0
LastOf(ops) ==
    IF \E i \in 1..Len(calls) : calls[i].op \in ops
    THEN CHOOSE i \in 1..Len(calls) :
            /\ calls[i].op \in ops
            /\ \A j \in (i + 1)..Len(calls) : calls[j].op \notin ops
    ELSE 0

\* the calls of the adapter's operations in the call in progress
AdapterCalls == {i \in 1..Len(calls) : calls[i].op \in AdapterOps}

\* C19: within one route call the FAQ table is consulted before anything is
\* called, the classifier is called before the branch, the adapter operation
\* of the branch before the answer is generated, and the answer is generated
\* before route returns; at most one adapter operation is invoked, once; a
\* FAQ hit calls nothing.
C19_Ordering ==
    /\ pc \in {"faq", "classify"} => calls = <<>>
    /\ pc \in {"threshold", "branch"}
        => /\ calls # <<>> /\ calls[1].op = "determine_intent"
           /\ AdapterCalls = {}
           /\ GenerationsOf({"rag", "analysis", "general"}) = {}
    /\ pc = "general" => GenerationsOf({"rag", "analysis", "general"}) = {}
    /\ \A i \in CallsOf("determine_intent") : i = 1
    /\ \A i \in GenerationsOf({"classify"}) : i = 2
    /\ \A i \in AdapterCalls :
        /\ i > LastOf({"determine_intent"})
        /\ \A j \in GenerationsOf({"classify"}) : j < i
        /\ \A j \in GenerationsOf({"rag", "analysis", "general"}) : i < j
    /\ Cardinality(AdapterCalls) <= 1
    /\ \A j \in GenerationsOf({"rag", "analysis", "general"}) : pc = "done"
    /\ (pc = "done" /\ response.source = "FAQ Database") => calls = <<>>
    /\ (pc = "done" /\ question \in DOMAIN FAQ_DATABASE)
        => response.source = "FAQ Database"
    /\ (pc = "done" /\ question \notin DOMAIN FAQ_DATABASE)
        => calls # <<>> /\ calls[1].op = "determine_intent"

C19_Witness ==
    /\ Returned
    /\ Classified /\ prediction.path = "llm"
    /\ Cardinality(AdapterCalls) = 1
    /\ HasCall("analyze_progress")
    /\ response.source = "Student Progress Service"

\* the cache key of a logged call of one of the two cached operations
KeyOf(c) ==
    IF c.op = "generate_llm_response" THEN HashKey("llm:response", c.arg)
    ELSE HashKey("rag:context", c.arg)

\* the call that has just returned, when no time has passed since
JustReturned == Len(calls) > 0 /\ calls[Len(calls)].at = now

\* the logged call went to its collaborator and returned normally
MissedAndReturned(c) ==
    /\ c.invoked
    /\ c.op = "generate_llm_response" => ~c.raised

\* C20 as claimed: after every call of a cached operation that missed the
\* cache and returned normally, the cache holds the key of the call.
C20_Claimed ==
    (JustReturned /\ MissedAndReturned(calls[Len(calls)]))
    => Present(Cache, KeyOf(calls[Len(calls)]), now)

\* C20 as amended: a call of a cached operation that finds its key in no
\* store invokes its collaborator; after a generate_llm_response that
\* invoked the collaborator and returned, and after a retrieve_context whose
\* retriever found documents, the cache holds the key of the call; a
\* retrieve_context whose retriever found nothing or raised returns without
\* a store: no store holds an entry it did not hold before the call.
C20_ReadThrough ==
    [][ calls' # calls =>
            LET c == calls'[Len(calls')]
                key == KeyOf(c)
                after == [redis |-> redis', mem |-> mem']
            IN /\ ~Present(Cache, key, now) => c.invoked
               /\ (c.op = "generate_llm_response" /\ c.invoked /\ ~c.raised)
                    => Present(after, key, now)
               /\ (c.op = "retrieve_context" /\ c.found) => Present(after, key, now)
               /\ (c.op = "retrieve_context" /\ c.invoked /\ ~c.found)
                    => /\ redis' = redis
                       /\ DOMAIN mem' \subseteq DOMAIN mem
                       /\ \A k \in DOMAIN mem' : mem'[k] = mem[k]
                       /\ c.source \in {"LLM (No RAG)", "LLM (RAG Error)"}
      ]_vars

C20_Witness ==
    /\ JustReturned
    /\ calls[Len(calls)].op = "retrieve_context"
    /\ calls[Len(calls)].invoked /\ ~calls[Len(calls)].found
    /\ calls[Len(calls)].source = "LLM (No RAG)"
    /\ \E i \in 1..(Len(calls) - 1) :
            calls[i].op = "generate_llm_response" /\ calls[i].invoked /\ ~calls[i].raised

(***************************************************************************)
(* POST /chat (main.py 585-690) behind the middleware stack of main.py     *)
(* 60-118.  Starlette runs the middleware added last first, so a request   *)
(* crosses JWTAuth, InputSanitization, WAF, RequestSize and RateLimit in   *)
(* that order, then FastAPI resolves get_current_user, validates the body  *)
(* as a ChatRequest and calls the endpoint.  A string is a sequence of     *)
(* atoms, a JSON member is Member(s) or NoMember.  The length limits of    *)
(* 50, 2000 and 4000 characters are beyond the strings modelled here.      *)
(***************************************************************************)
DangerousChars == <<"<", ">", "\"", "'", "&">>

RECURSIVE RemoveEach(_, _)
RemoveEach(s, olds) ==
    IF olds = <<>> THEN s ELSE RemoveEach(Remove(s, Head(olds)), Tail(olds))

\* security_middleware.sanitize_string
sanitize_string(s) == Strip(RemoveEach(s, DangerousChars))

\* the atoms matching [a-zA-Z0-9_]+
IdWords == {"s1", "s2", "x", "ghost", "demo_1"}

\* security_middleware.validate_user_id
validate_user_id(s) == s # <<>> /\ \A i \in 1..Len(s) : s[i] \in IdWords

\* InputSanitizationMiddleware._sanitize_payload on the JSON object of the body
SanitizePayload(body) ==
    [f \in DOMAIN body |->
        IF body[f].has THEN Member(sanitize_string(body[f].s)) ELSE NoMember]

\* WAFMiddleware: the blocked user agents and the pattern \b(drop|alter|truncate)\b
BLOCKED_USER_AGENTS == {"curl"}
SuspiciousWords == {"drop"}
WafMatches(body) ==
    \E f \in DOMAIN body : \E i \in 1..Len(body[f].s) : body[f].s[i] \in SuspiciousWords

\* mutant: a question that is not missing passes validation
QuestionValid_anyString(m) == m.has

\* ChatRequest.question: Field(min_length=1) and validate_question
QuestionValid(m) == m.has /\ Len(m.s) >= 1 /\ Strip(m.s) # <<>>

\* ChatRequest.user_id: Field(min_length=1) and validate_user_id
UserIdValid(m) == m.has /\ Len(m.s) >= 1 /\ validate_user_id(m.s)

ChatRequestValid(body) == QuestionValid(body.question) /\ UserIdValid(body.user_id)

\* the Authorization header: absent, not a token, or the token of a user
AuthHeaders == {"none", "garbage", "s1", "ghost", "demo_1"}
\* decode_access_token succeeds
TokenDecodes(a) == a \notin {"none", "garbage"}
TokenIsDemo(a) == a = "demo_1"
\* the rows of the users table
UsersTable == {"s1", "s2"}

ChatQuestions ==
    {NoMember, Member(<<>>), Member(<<" ">>), Member(<<"<">>), Member(<<"drop">>),
     Member(<<"laiha">>)}
ChatUserIds ==
    {NoMember, Member(<<>>), Member(<<"s1">>), Member(<<"s2">>), Member(<<"demo_1">>),
     Member(<<"<", "s1", ">">>), Member(<<"s1", "-", "x">>)}
ChatRequests ==
    [auth : AuthHeaders, agent : {"browser", "curl"}, oversize : BOOLEAN,
     body : [question : ChatQuestions, user_id : ChatUserIds]]

InitChat ==
    /\ http = NoRequest
    /\ NoThreads
    /\ factory = DefaultFactory
    /\ limiter = NewLimiter
    /\ question = <<>>
    /\ redisConfigured \in BOOLEAN
    /\ redis = EmptyStore
    /\ mem = EmptyStore
    /\ now = 0
    /\ nCalls = 0
    /\ IdleCall

\* the response leaves with this status
Respond(status) == http' = [http EXCEPT !.stage = "sent", !.status = status]
Forward(stage) == http' = [http EXCEPT !.stage = stage]

\* a request arrives; rewrites tells whether this Starlette hands the body
\* a middleware stored in request._body to the application below it
Chat_Receive(r, rewrites) ==
    /\ http.stage = "none"
    /\ pc = "idle"
    /\ http' = [req |-> r, rewrites |-> rewrites, body |-> r.body, stage |-> "jwt",
                status |-> 0, endpoint |-> FALSE, history_read |-> FALSE, routed |-> FALSE,
                persisted |-> FALSE]
    /\ UNCHANGED <<question, redisConfigured, lock, thr, factory, limiter, cacheVars, now, nCalls, callVars>>

JWTAuth ==
    /\ http.stage = "jwt"
    /\ IF TokenDecodes(http.req.auth) THEN Forward("sanitize") ELSE Respond(401)
    /\ UNCHANGED <<question, redisConfigured, lock, thr, factory, limiter, cacheVars, now, nCalls, callVars>>

InputSanitization ==
    /\ http.stage = "sanitize"
    /\ http' = [http EXCEPT !.stage = "waf",
                            !.body = IF http.rewrites THEN SanitizePayload(@) ELSE @]
    /\ UNCHANGED <<question, redisConfigured, lock, thr, factory, limiter, cacheVars, now, nCalls, callVars>>

WAF ==
    /\ http.stage = "waf"
    /\ IF http.req.agent \in BLOCKED_USER_AGENTS \/ WafMatches(http.body)
       THEN Respond(403)
       ELSE Forward("size")
    /\ UNCHANGED <<question, redisConfigured, lock, thr, factory, limiter, cacheVars, now, nCalls, callVars>>

RequestSize ==
    /\ http.stage = "size"
    /\ IF http.req.oversize THEN Respond(413) ELSE Forward("rate")
    /\ UNCHANGED <<question, redisConfigured, lock, thr, factory, limiter, cacheVars, now, nCalls, callVars>>

RateLimit(allowed) ==
    /\ http.stage = "rate"
    /\ IF allowed THEN Forward("app") ELSE Respond(429)
    /\ UNCHANGED <<question, redisConfigured, lock, thr, factory, limiter, cacheVars, now, nCalls, callVars>>

\* FastAPI: get_current_user raises before the body's validation errors are
\* reported
Validate ==
    /\ http.stage = "app"
    /\ IF ~TokenIsDemo(http.req.auth) /\ http.req.auth \notin UsersTable
       THEN Respond(401)
       ELSE IF ~ChatRequestValid(http.body)
       THEN Respond(422)
       ELSE Forward("endpoint")
    /\ UNCHANGED <<question, redisConfigured, lock, thr, factory, limiter, cacheVars, now, nCalls, callVars>>

\* mutant: a demo session is routed with the user id of its token
Chat_Begin_demoWithUserId(h) ==
    /\ http.stage = "endpoint"
    /\ pc = "idle"
    /\ nCalls < MaxCalls
    /\ IF http.body.user_id.s # <<http.req.auth>>
       THEN /\ http' = [http EXCEPT !.stage = "sent", !.status = 403, !.endpoint = TRUE]
            /\ UNCHANGED <<question, nCalls, pc, user_id, is_demo, chat_history>>
       ELSE /\ TokenIsDemo(http.req.auth) => h = <<>>
            /\ http' = [http EXCEPT !.stage = "route", !.routed = TRUE, !.endpoint = TRUE,
                                    !.history_read = ~TokenIsDemo(http.req.auth)]
            /\ question' = sanitize_string(http.body.question.s)
            /\ user_id' = http.req.auth
            /\ is_demo' = TokenIsDemo(http.req.auth)
            /\ chat_history' = h
            /\ nCalls' = nCalls + 1
            /\ pc' = "faq"
    /\ UNCHANGED <<redisConfigured, lock, thr, factory, limiter, cacheVars, now, redisUp,
                   raw_response, prediction, intent, fallback_triggered, context, calls,
                   response, error>>

\* chat_with_advisor up to its call of process_agentic_query: the 403 of a
\* user_id that is not the authenticated user's, then, unless the session
\* is a demo session, _get_chat_history, whose records are h
Chat_Begin(h) ==
    /\ http.stage = "endpoint"
    /\ pc = "idle"
    /\ nCalls < MaxCalls
    /\ IF http.body.user_id.s # <<http.req.auth>>
       THEN /\ http' = [http EXCEPT !.stage = "sent", !.status = 403, !.endpoint = TRUE]
            /\ UNCHANGED <<question, nCalls, pc, user_id, is_demo, chat_history>>
       ELSE /\ TokenIsDemo(http.req.auth) => h = <<>>
            /\ http' = [http EXCEPT !.stage = "route", !.routed = TRUE, !.endpoint = TRUE,
                                    !.history_read = ~TokenIsDemo(http.req.auth)]
            /\ question' = sanitize_string(http.body.question.s)
            /\ user_id' = IF TokenIsDemo(http.req.auth) THEN NoneUser ELSE http.req.auth
            /\ is_demo' = TokenIsDemo(http.req.auth)
            /\ chat_history' = h
            /\ nCalls' = nCalls + 1
            /\ pc' = "faq"
    /\ UNCHANGED <<redisConfigured, lock, thr, factory, limiter, cacheVars, now, redisUp,
                   raw_response, prediction, intent, fallback_triggered, context, calls,
                   response, error>>

\* chat_with_advisor from the return of process_agentic_query
Chat_End ==
    /\ http.stage = "route"
    /\ pc = "done"
    /\ IF error = "none"
       THEN http' = [http EXCEPT !.stage = "sent", !.status = 200,
                                 !.persisted = ~is_demo /\ response.intent # <<"clarify">>]
       ELSE Respond(500)
    /\ UNCHANGED <<question, redisConfigured, lock, thr, factory, limiter, cacheVars, now, nCalls, callVars>>

NextChat ==
    \/ \E r \in ChatRequests, rewrites \in BOOLEAN : Chat_Receive(r, rewrites)
    \/ JWTAuth
    \/ InputSanitization
    \/ WAF
    \/ RequestSize
    \/ \E allowed \in BOOLEAN : RateLimit(allowed)
    \/ Validate
    \/ \E h \in Histories : Chat_Begin(h)
    \/ RouteStep
    \/ Chat_End

SpecChat == InitChat /\ [][NextChat]_vars

\* the request the client sent has an empty or whitespace-only question, or
\* no user_id, or a malformed one
BadChatBody(body) ==
    \/ body.question.has /\ Strip(body.question.s) = <<>>
    \/ ~UserIdValid(body.user_id)

Answered == http.stage = "sent"

\* C17 as stated: a chat request whose question is empty or whitespace-only,
\* or whose user_id is missing or malformed, is answered with 400, 401 or 422,
\* the router is not called and no chat exchange is persisted.
C17_Claimed ==
    (http.stage # "none" /\ BadChatBody(http.req.body)) =>
        /\ ~http.routed
        /\ ~http.persisted
        /\ Answered => http.status \in {400, 401, 422}

\* C17: a chat request whose body, as the application receives it, has an
\* empty or whitespace-only question or a missing or malformed user_id is
\* answered with 401, 403, 413, 422 or 429, the router is not called and no
\* chat exchange is persisted; the router is only ever called for a body that
\* passed validation and names the authenticated user.
C17_Rejected ==
    /\ (http.stage # "none" /\ BadChatBody(http.req.body)
            /\ (http.rewrites => BadChatBody(SanitizePayload(http.req.body)))) =>
            /\ ~http.routed
            /\ ~http.persisted
            /\ pc = "idle"
            /\ calls = <<>>
            /\ Answered => http.status \in {401, 403, 413, 422, 429}
    /\ (http.stage # "none" /\ http.routed) =>
            /\ ChatRequestValid(http.body)
            /\ http.body.user_id.s = <<http.req.auth>>
    /\ (http.stage # "none" /\ http.persisted) => http.routed

\* an authenticated, well-behaved client sent a whitespace-only question and
\* got 422 back
C17_Witness ==
    /\ Answered
    /\ http.req.auth = "s1"
    /\ http.req.body.question = Member(<<" ">>)
    /\ http.req.body.user_id = Member(<<"s1">>)
    /\ http.status = 422
    /\ ~http.routed

(***************************************************************************)
(* One route call with a history of 0 to MaxTurns turns, each turn with a  *)
(* content of its own (llm_service.py 212-221, 368-373).                   *)
(***************************************************************************)
MaxTurns == 8

TurnContents == <<"t1", "t2", "t3", "t4", "t5", "t6", "t7", "t8", "t9", "t10">>

LongHistory(n) ==
    [i \in 1..n |-> Turn(IF i % 2 = 1 THEN "user" ELSE "assistant", TurnContents[i])]

LongHistories == {LongHistory(n) : n \in 0..MaxTurns}

NextHistory ==
    \/ \E h \in LongHistories, d \in BOOLEAN : Route_Begin("s1", d, h)
    \/ RouteStep

SpecHistory == Init /\ [][NextHistory]_vars

\* the history block of a prompt holds the last min(n, 6) turns of h in order
LastTurns(block, h) ==
    LET n == Len(h)
        k == IF n < 6 THEN n ELSE 6
    IN /\ Len(block) = k
       /\ \A i \in 1..k : block[i] = <<RoleLabel(h[n - k + i].role), h[n - k + i].content>>

\* C21: the history block of every answer prompt of a route call holds
\* exactly the last min(n, 6) turns of the caller's history of n turns, in
\* their order, and the history is not changed while the call runs.
C21_HistoryWindow ==
    /\ [](\A i \in GenerationsOf({"rag", "analysis", "general"}) :
            LastTurns(calls[i].arg.hist, chat_history))
    /\ [][pc # "idle" => chat_history' = chat_history]_vars

\* a call with a history of eight turns generated an answer from a prompt
\* whose block starts at the third turn
C21_Witness ==
    /\ Returned
    /\ Len(chat_history) = 8
    /\ \E i \in GenerationsOf({"rag", "analysis", "general"}) :
            /\ Len(calls[i].arg.hist) = 6
            /\ calls[i].arg.hist[1][2] = "t3"

(***************************************************************************)
(* _InMemoryTTLCache (cache_manager.py 23-67) called by concurrent         *)
(* threads.  Each statement of get and set is a step; the with statement   *)
(* takes the lock before the first statement of its body and releases it   *)
(* after the last one.  calls logs the operations as they leave the lock.  *)
(***************************************************************************)
MaxOps == 3        \* get and set operations per behaviour

MemKeys == StoreKeys
\* the ttl_seconds of a set: an entry set now expires at the next tick exactly
MemTTLs == {TickSeconds}

\* the text a thread sets
ThreadText(th) == Plain(<<IF th = 1 THEN "answer 1" ELSE "answer 2">>)

InitMem ==
    /\ http = NoRequest
    /\ NoThreads
    /\ factory = DefaultFactory
    /\ limiter = NewLimiter
    /\ question = <<"laiha">>
    /\ redisConfigured = FALSE
    /\ redis = EmptyStore
    /\ mem = EmptyStore
    /\ now = 0
    /\ nCalls = 0
    /\ IdleCall

MemFrame ==
    UNCHANGED <<question, redisConfigured, http, factory, limiter, redis, now, pc, redisUp, user_id, is_demo,
                chat_history, raw_response, prediction, intent, fallback_triggered, context,
                response, error>>

\* set, line 64: expires_at = time.time() + ttl_seconds, before the lock
Set_Begin(th, key, ttl) ==
    /\ thr[th].pc = "idle"
    /\ nCalls < MaxOps
    /\ nCalls' = nCalls + 1
    /\ thr' = [thr EXCEPT ![th] = [pc |-> "set_wait", key |-> key, val |-> ThreadText(th),
                                   ttl_seconds |-> ttl, t0 |-> now,
                                   expires_at |-> now + ttl, entry |-> NoEntry]]
    /\ UNCHANGED <<lock, mem, calls>>
    /\ MemFrame

\* get is called
Get_Begin(th, key) ==
    /\ thr[th].pc = "idle"
    /\ nCalls < MaxOps
    /\ nCalls' = nCalls + 1
    /\ thr' = [thr EXCEPT ![th] = [IdleThread EXCEPT !.pc = "get_wait", !.key = key]]
    /\ UNCHANGED <<lock, mem, calls>>
    /\ MemFrame

\* mutant: the body is entered without taking the lock
Acquire_unguarded(th) ==
    /\ thr[th].pc \in {"set_wait", "get_wait"}
    /\ thr' = [thr EXCEPT ![th].pc = IF @ = "set_wait" THEN "set_locked" ELSE "get_locked"]
    /\ UNCHANGED <<lock, mem, calls, nCalls>>
    /\ MemFrame

\* with self._lock: lines 45 and 66
Acquire(th) ==
    /\ thr[th].pc \in {"set_wait", "get_wait"}
    /\ lock = 0
    /\ lock' = th
    /\ thr' = [thr EXCEPT ![th].pc = IF @ = "set_wait" THEN "set_locked" ELSE "get_locked"]
    /\ UNCHANGED <<mem, calls, nCalls>>
    /\ MemFrame

\* set, line 67: self._store[key] = (expires_at, value), and the lock is released
Set_Store(th) ==
    /\ thr[th].pc = "set_locked"
    /\ mem' = With(mem, thr[th].key, [exp |-> thr[th].expires_at, val |-> thr[th].val])
    /\ calls' = Append(calls, [op |-> "set", by |-> th, arg |-> thr[th].key,
                               exp |-> thr[th].expires_at, val |-> PyStr(thr[th].val),
                               at |-> thr[th].t0, ttl |-> thr[th].ttl_seconds])
    /\ lock' = 0
    /\ thr' = [thr EXCEPT ![th] = IdleThread]
    /\ UNCHANGED nCalls
    /\ MemFrame

\* get, lines 46-48: entry = self._store.get(key); a missing entry returns None
Get_Read(th) ==
    /\ thr[th].pc = "get_locked"
    /\ IF thr[th].key \in DOMAIN mem
       THEN /\ thr' = [thr EXCEPT ![th].pc = "get_check",
                                  ![th].entry = [has |-> TRUE, exp |-> mem[thr[th].key].exp,
                                                 val |-> mem[thr[th].key].val]]
            /\ UNCHANGED <<lock, calls>>
       ELSE /\ calls' = Append(calls, [op |-> "get", by |-> th, arg |-> thr[th].key,
                                       exp |-> 0, val |-> PyNone, at |-> now, ttl |-> 0])
            /\ lock' = 0
            /\ thr' = [thr EXCEPT ![th] = IdleThread]
    /\ UNCHANGED <<mem, nCalls>>
    /\ MemFrame

\* mutant: an entry expiring at this very second is evicted too
Get_Check_inclusive(th) ==
    /\ thr[th].pc = "get_check"
    /\ thr[th].key \in DOMAIN mem
    /\ IF thr[th].entry.exp <= now
       THEN /\ mem' = Without(mem, thr[th].key)
            /\ calls' = Append(calls, [op |-> "get", by |-> th, arg |-> thr[th].key,
                                       exp |-> thr[th].entry.exp, val |-> PyNone, at |-> now, ttl |-> 0])
       ELSE /\ mem' = mem
            /\ calls' = Append(calls, [op |-> "get", by |-> th, arg |-> thr[th].key,
                                       exp |-> thr[th].entry.exp,
                                       val |-> PyStr(thr[th].entry.val), at |-> now,
                                       ttl |-> 0])
    /\ lock' = 0
    /\ thr' = [thr EXCEPT ![th] = IdleThread]
    /\ UNCHANGED nCalls
    /\ MemFrame

\* get, lines 49-53: an entry whose expires_at is before time.time() is
\* deleted and None is returned, any other entry's value is returned; the
\* lock is released.  del raises KeyError when the key is gone, which the
\* lock excludes.
Get_Check(th) ==
    /\ thr[th].pc = "get_check"
    /\ thr[th].key \in DOMAIN mem
    /\ IF thr[th].entry.exp < now
       THEN /\ mem' = Without(mem, thr[th].key)
            /\ calls' = Append(calls, [op |-> "get", by |-> th, arg |-> thr[th].key,
                                       exp |-> thr[th].entry.exp, val |-> PyNone, at |-> now, ttl |-> 0])
       ELSE /\ mem' = mem
            /\ calls' = Append(calls, [op |-> "get", by |-> th, arg |-> thr[th].key,
                                       exp |-> thr[th].entry.exp,
                                       val |-> PyStr(thr[th].entry.val), at |-> now,
                                       ttl |-> 0])
    /\ lock' = 0
    /\ thr' = [thr EXCEPT ![th] = IdleThread]
    /\ UNCHANGED nCalls
    /\ MemFrame

NextMem ==
    \/ \E th \in Threads, key \in MemKeys, ttl \in MemTTLs : Set_Begin(th, key, ttl)
    \/ \E th \in Threads, key \in MemKeys : Get_Begin(th, key)
    \/ \E th \in Threads : Acquire(th)
    \/ \E th \in Threads : Set_Store(th)
    \/ \E th \in Threads : Get_Read(th)
    \/ \E th \in Threads : Get_Check(th)
    \/ Tick

SpecMem == InitMem /\ [][NextMem]_vars

\* the position in calls of the last set on key, or 0
LastSetOf(key) ==
    LET s == {i \in 1..Len(calls) : calls[i].op = "set" /\ calls[i].arg = key}
    IN IF s = {} THEN 0 ELSE CHOOSE i \in s : \A j \in s : j <= i

\* thread th leaves get on this step, having read an entry
GetReturns(th) == thr[th].pc = "get_check" /\ thr'[th].pc = "idle"

\* C22: in the in-memory TTL cache every entry expires ttl_seconds after the
\* time its set read, a get never returns a value whose expiry is strictly
\* earlier than the time of the get, a get that finds such an entry removes
\* it and reports a miss, and a get that finds any other entry returns its
\* value and keeps it.
C22_Expiry ==
    /\ [](\A i \in 1..Len(calls) :
            /\ (calls[i].op = "set") => calls[i].exp = calls[i].at + calls[i].ttl
            /\ (calls[i].op = "get" /\ calls[i].val # PyNone) => ~(calls[i].exp < calls[i].at))
    /\ [](\A key \in DOMAIN mem :
            /\ LastSetOf(key) # 0
            /\ mem[key].exp = calls[LastSetOf(key)].exp)
    /\ [][\A th \in Threads : GetReturns(th) =>
            LET key == thr[th].key
                got == calls'[Len(calls')]
            IN /\ key \in DOMAIN mem
               /\ got.op = "get" /\ got.arg = key /\ got.at = now
               /\ IF mem[key].exp < now
                  THEN got.val = PyNone /\ mem' = Without(mem, key)
                  ELSE got.val = PyStr(mem[key].val) /\ mem' = mem]_vars

\* a get found an entry past its expiry, reported a miss and removed it
C22_Witness ==
    /\ calls # <<>>
    /\ LET got == calls[Len(calls)]
       IN /\ got.op = "get"
          /\ got.val = PyNone
          /\ got.exp # 0
          /\ got.exp < got.at
          /\ got.arg \notin DOMAIN mem

\* the threads between taking the lock and releasing it
InsideLock == {th \in Threads : thr[th].pc \in {"set_locked", "get_locked", "get_check"}}

\* C23: the body of a get or set runs with the lock held by its thread alone,
\* the entry stored under a key is the (expiry, value) pair of the set that
\* took the lock last, and the only step that removes an entry is a get
\* evicting the expired entry it read itself, never one a concurrent set
\* wrote since.
C23_Atomic ==
    /\ [](/\ Cardinality(InsideLock) <= 1
          /\ \A th \in InsideLock : lock = th
          /\ InsideLock = {} => lock = 0)
    /\ [](\A key \in DOMAIN mem :
            /\ LastSetOf(key) # 0
            /\ mem[key] = [exp |-> calls[LastSetOf(key)].exp,
                           val |-> calls[LastSetOf(key)].val.x])
    /\ [][\A key \in DOMAIN mem :
            key \notin DOMAIN mem' =>
                \E th \in Threads :
                    /\ GetReturns(th)
                    /\ thr[th].key = key
                    /\ thr[th].entry = [has |-> TRUE, exp |-> mem[key].exp, val |-> mem[key].val]
                    /\ mem[key].exp < now]_vars

\* the two threads set the same key, one waiting for the lock while the other
\* held it, and the entry is that of the thread that took the lock last
C23_Witness ==
    /\ Len(calls) = 2
    /\ calls[1].op = "set" /\ calls[2].op = "set"
    /\ calls[1].arg = calls[2].arg
    /\ calls[1].by # calls[2].by
    /\ calls[2].at < calls[1].at
    /\ mem[calls[2].arg] = [exp |-> calls[2].exp, val |-> calls[2].val.x]
    /\ calls[2].exp < calls[1].exp

(***************************************************************************)
(* LLMClientFactory.generate (llm_service.py 133-157) alone.  The factory  *)
(* is built from LLM_PROVIDER and OPENAI_API_KEY; p and s are what the     *)
(* primary and the fallback provider do when called.  calls logs the       *)
(* events of each call in order.                                           *)
(***************************************************************************)
Providers == {"openai", "ollama", "azure"}
ProviderOutcomes == {"ok", "raise"}

\* what a provider returns, and the exception it raises
ProviderText(client) == Plain(<<"answer of ", client>>)
ProviderError(client) == Plain(<<"error of ", client>>)

InitFactory ==
    /\ http = NoRequest
    /\ NoThreads
    /\ factory \in {LLMClientFactory(provider, hasKey) :
                        provider \in Providers, hasKey \in BOOLEAN}
    /\ limiter = NewLimiter
    /\ question = <<"laiha">>
    /\ redisConfigured = FALSE
    /\ redis = EmptyStore
    /\ mem = EmptyStore
    /\ now = 0
    /\ nCalls = 0
    /\ IdleCall

\* mutant: the fallback provider is called whatever the primary did
GenerateEvents_bothProviders(f, prompt, p, s) ==
    <<Call("generate", prompt), Call("primary", p)>>
    \o (IF ~f.fallback
        THEN (IF p = "ok" THEN <<Call("return", ProviderText(f.primary))>>
              ELSE <<Call("raise", ProviderError(f.primary))>>)
        ELSE <<Call("fallback", s)>>
             \o (IF s = "ok" THEN <<Call("return", ProviderText("ollama fallback"))>>
                 ELSE <<Call("raise", ProviderError("ollama fallback"))>>))

\* the events of generate(prompt)
GenerateEvents(f, prompt, p, s) ==
    <<Call("generate", prompt), Call("primary", p)>>
    \o (IF p = "ok" THEN <<Call("return", ProviderText(f.primary))>>
        ELSE IF ~f.fallback THEN <<Call("raise", ProviderError(f.primary))>>
        ELSE <<Call("fallback", s)>>
             \o (IF s = "ok" THEN <<Call("return", ProviderText("ollama fallback"))>>
                 ELSE <<Call("raise", ProviderError("ollama fallback"))>>))

Factory_Generate(prompt, p, s) ==
    /\ pc = "idle"
    /\ nCalls < MaxCalls
    /\ nCalls' = nCalls + 1
    /\ calls' = calls \o GenerateEvents(factory, prompt, p, s)
    /\ UNCHANGED <<cfgVars, cacheVars, now, pc, redisUp, user_id, is_demo, chat_history,
                   raw_response, prediction, intent, fallback_triggered, context, response,
                   error>>

NextFactory ==
    \E prompt \in CachePrompts, p \in ProviderOutcomes, s \in ProviderOutcomes :
        Factory_Generate(prompt, p, s)

SpecFactory == InitFactory /\ [][NextFactory]_vars

\* C24: generate returns the primary provider's result when the primary
\* succeeds, without calling the fallback; the fallback is called only right
\* after the primary raised, once, and its result or its error is the
\* call's; when the primary raised and there is no fallback (the primary is
\* Ollama, also when the OpenAI client could not be built) the primary's
\* error is raised.
C24_Failover ==
    /\ factory.fallback <=> factory.primary # "ollama"
    /\ factory.primary = "openai" <=> (factory.provider = "openai" /\ factory.hasKey)
    /\ factory.primary \in {"openai", "ollama"}
    /\ calls # <<>> => calls[Len(calls)].op \in {"return", "raise"}
    /\ \A i \in 1..Len(calls) :
        LET e == calls[i]
            prev == calls[i - 1]
        IN /\ e.op = "generate" => (i = 1 \/ prev.op \in {"return", "raise"})
           /\ e.op = "primary" => prev.op = "generate"
           /\ e.op = "fallback" =>
                prev.op = "primary" /\ prev.arg = "raise" /\ factory.fallback
           /\ e.op = "return" =>
                \/ prev.op = "primary" /\ prev.arg = "ok" /\ e.arg = ProviderText(factory.primary)
                \/ prev.op = "fallback" /\ prev.arg = "ok"
                        /\ e.arg = ProviderText("ollama fallback")
           /\ e.op = "raise" =>
                \/ prev.op = "primary" /\ prev.arg = "raise" /\ ~factory.fallback
                        /\ e.arg = ProviderError(factory.primary)
                \/ prev.op = "fallback" /\ prev.arg = "raise"
                        /\ e.arg = ProviderError("ollama fallback")

\* the OpenAI primary raised, the fallback answered, and in a later call the
\* primary answered alone
C24_Witness ==
    /\ factory.primary = "openai"
    /\ Len(calls) = 7
    /\ calls[2] = Call("primary", "raise")
    /\ calls[3] = Call("fallback", "ok")
    /\ calls[4] = Call("return", ProviderText("ollama fallback"))
    /\ calls[6] = Call("primary", "ok")
    /\ calls[7] = Call("return", ProviderText("openai"))

(***************************************************************************)
(* RateLimitMiddleware and the in-memory limiter of RedisRateLimiter       *)
(* (security_middleware.py 44-46, 87-152), without a Redis backend.  One   *)
(* client address sends requests to authentication paths and to other     *)
(* paths while time passes in steps of RateStep seconds.                   *)
(***************************************************************************)
RATE_LIMIT_WINDOW == 60
RATE_LIMIT_MAX_REQUESTS == 100
RATE_LIMIT_AUTH_MAX == 10

MaxRequests == 4   \* requests per behaviour
RateStep == 30     \* seconds between two readings of the clock

\* the limit dispatch gives is_allowed for a key
LimitOf(key) == IF key = AuthKey THEN RATE_LIMIT_AUTH_MAX ELSE RATE_LIMIT_MAX_REQUESTS

\* line 90: the request times of the bucket still inside the window
Pruned(bucket, window, t) ==
    LET Inside(req_time) == t - req_time < window
    IN SelectSeq(bucket, Inside)

\* mutant: the bucket may hold one request more than the limit
LocalCheck_oneMore(bucket, limit, window, t) ==
    LET kept == Pruned(bucket, window, t)
    IN IF Len(kept) > limit
       THEN [allowed |-> FALSE, bucket |-> kept]
       ELSE [allowed |-> TRUE, bucket |-> Append(kept, t)]

\* RedisRateLimiter._local_check; is_allowed is this when _redis is None
LocalCheck(bucket, limit, window, t) ==
    LET kept == Pruned(bucket, window, t)
    IN IF Len(kept) >= limit
       THEN [allowed |-> FALSE, bucket |-> kept]
       ELSE [allowed |-> TRUE, bucket |-> Append(kept, t)]

\* the limiter after is_allowed(key, LimitOf(key), RATE_LIMIT_WINDOW) answered r
Checked(l, key, r, t) ==
    [l EXCEPT !.counts[key] = r.bucket,
              !.admitted[key] = IF r.allowed THEN Append(@, t) ELSE @]

\* n requests at time 0
Burst(n) == [i \in 1..n |-> 0]

\* a client that sent, at time 0, two requests fewer than the general limit
\* allows, one fewer than the authentication limit allows of them to
\* authentication paths
BusyLimiter ==
    [counts |-> (AuthKey :> Burst(RATE_LIMIT_AUTH_MAX - 1)
                 @@ ReqKey :> Burst(RATE_LIMIT_MAX_REQUESTS - 2)),
     admitted |-> (AuthKey :> Burst(RATE_LIMIT_AUTH_MAX - 1)
                   @@ ReqKey :> Burst(RATE_LIMIT_MAX_REQUESTS - 2)),
     last |-> NoRequestYet]

InitRate ==
    /\ http = NoRequest
    /\ NoThreads
    /\ factory = DefaultFactory
    /\ limiter \in {NewLimiter, BusyLimiter}
    /\ question = <<"laiha">>
    /\ redisConfigured = FALSE
    /\ redis = EmptyStore
    /\ mem = EmptyStore
    /\ now = 0
    /\ nCalls = 0
    /\ IdleCall

RateFrame ==
    UNCHANGED <<question, redisConfigured, http, lock, thr, factory, cacheVars, callVars>>

\* RateLimitMiddleware.dispatch for a request to an authentication path
Rate_AuthRequest ==
    /\ nCalls < MaxRequests
    /\ nCalls' = nCalls + 1
    /\ LET a == LocalCheck(limiter.counts[AuthKey], RATE_LIMIT_AUTH_MAX, RATE_LIMIT_WINDOW, now)
           l1 == Checked(limiter, AuthKey, a, now)
           g == LocalCheck(l1.counts[ReqKey], RATE_LIMIT_MAX_REQUESTS, RATE_LIMIT_WINDOW, now)
           l2 == Checked(l1, ReqKey, g, now)
       IN IF ~a.allowed
          THEN limiter' = [l1 EXCEPT !.last = [path |-> "auth", status |-> 429,
                                               checked |-> {AuthKey}, allowed |-> {}]]
          ELSE limiter' = [l2 EXCEPT !.last =
                    [path |-> "auth", status |-> IF g.allowed THEN 200 ELSE 429,
                     checked |-> {AuthKey, ReqKey},
                     allowed |-> IF g.allowed THEN {AuthKey, ReqKey} ELSE {AuthKey}]]
    /\ UNCHANGED now
    /\ RateFrame

\* RateLimitMiddleware.dispatch for a request to any other path
Rate_Request ==
    /\ nCalls < MaxRequests
    /\ nCalls' = nCalls + 1
    /\ LET g == LocalCheck(limiter.counts[ReqKey], RATE_LIMIT_MAX_REQUESTS, RATE_LIMIT_WINDOW, now)
       IN limiter' = [Checked(limiter, ReqKey, g, now) EXCEPT !.last =
                    [path |-> "other", status |-> IF g.allowed THEN 200 ELSE 429,
                     checked |-> {ReqKey},
                     allowed |-> IF g.allowed THEN {ReqKey} ELSE {}]]
    /\ UNCHANGED now
    /\ RateFrame

\* time.time() advances
Rate_Tick ==
    /\ now < (MaxTicks + 1) * RateStep
    /\ now' = now + RateStep
    /\ UNCHANGED <<limiter, nCalls>>
    /\ RateFrame

NextRate ==
    \/ Rate_AuthRequest
    \/ Rate_Request
    \/ Rate_Tick

SpecRate == InitRate /\ [][NextRate]_vars

\* the checks key allowed at times t with from <= t < from + RATE_LIMIT_WINDOW
AdmittedFrom(key, from) ==
    {i \in 1..Len(limiter.admitted[key]) :
        from <= limiter.admitted[key][i] /\ limiter.admitted[key][i] < from + RATE_LIMIT_WINDOW}

\* a request was handled on this step
Handled == nCalls' = nCalls + 1

C26_DemoIsolation ==
    /\ (http.stage # "none" /\ TokenIsDemo(http.req.auth)) =>
            /\ ~http.history_read
            /\ ~http.persisted
            /\ http.routed =>
                    /\ user_id = NoneUser
                    /\ is_demo
                    /\ chat_history = <<>>
                    /\ \A i \in 1..Len(calls) : calls[i].op # "analyze_progress"
    /\ (http.endpoint /\ http.body.user_id.s # <<http.req.auth>>) =>
            /\ http.stage = "sent"
            /\ http.status = 403
            /\ ~http.history_read
            /\ ~http.routed
            /\ ~http.persisted
            /\ pc = "idle" /\ calls = <<>>

\* a demo session's question was answered and nothing was persisted
C26_Witness ==
    /\ http.stage = "sent"
    /\ TokenIsDemo(http.req.auth)
    /\ http.routed
    /\ http.status = 200
    /\ ~http.persisted
    /\ calls # <<>>

\* C27 as claimed: a get that follows a set of the same key before the entry
\* expires, both served by the networked store or both by the in-memory
\* store, returns a value equal to the one that was set, a text as the same
\* text and a {context, source} payload as the same payload.
C27_Claimed ==
    \A i \in 1..(Len(calls) - 1) :
        LET s == calls[i]
            g == calls[i + 1]
        IN (s.op = "set" /\ g.op = "get" /\ s.arg = g.arg
                /\ g.at < s.at + StoreTTL(s.arg)
                /\ (~redisConfigured \/ (s.ok /\ g.ok)))
            => g.val = s.val

\* no store holds an entry after the step that it did not hold before it
NothingStored ==
    /\ redis' = redis
    /\ DOMAIN mem' \subseteq DOMAIN mem
    /\ \A k \in DOMAIN mem' : mem'[k] = mem[k]

\* C28: a generate_llm_response whose collaborator raises stores nothing, so
\* a prompt whose key no store held before the call is held by none after
\* it, and a call that finds its key in no store invokes the collaborator
\* (again); a retrieve_context whose retriever raises or finds no documents
\* stores nothing either and returns an absent context with its source label
\* instead of raising.
C28_NothingStoredOnFailure ==
    [][ calls' # calls =>
            LET c == calls'[Len(calls')]
                key == KeyOf(c)
                after == [redis |-> redis', mem |-> mem']
            IN /\ (c.op = "generate_llm_response" /\ c.raised) =>
                    /\ c.invoked
                    /\ NothingStored
                    /\ ~Present(Cache, key, now) => ~Present(after, key, now)
               /\ (c.op = "generate_llm_response" /\ ~Present(Cache, key, now)) => c.invoked
               /\ (c.op = "retrieve_context" /\ c.invoked /\ ~c.found) =>
                    /\ NothingStored
                    /\ ~Present(Cache, key, now) => ~Present(after, key, now)
                    /\ c.context = PyNone
                    /\ c.source \in {"LLM (No RAG)", "LLM (RAG Error)"}
      ]_vars

\* the collaborator raised in one call and was invoked again by the next call
\* with the same prompt, which found nothing stored
C28_Witness ==
    /\ Len(calls) = 2
    /\ calls[1].op = "generate_llm_response" /\ calls[1].raised
    /\ calls[2].op = "generate_llm_response" /\ calls[2].arg = calls[1].arg
    /\ calls[2].invoked /\ ~calls[2].raised
    /\ calls[2].at = calls[1].at

\* the (source, intent) pairs of C29
SourceIntentTable ==
    {<<"FAQ Database", query_rag>>,
     <<"Demo Mode", analyze_progress>>,
     <<"Student Progress Service", analyze_progress>>,
     <<"Error", analyze_progress>>,
     <<"Graph DB (Neo4j)", graph_query>>,
     <<"LLM (General)", general_chat>>,
     <<"Agent Error", unknown>>}
    \cup {<<l, query_rag>> : l \in RetrievedLabels}
    \cup {<<l \o " (Fallback)", query_rag>> : l \in RetrievedLabels}

\* C29: every response route returns has its (source, intent) pair in the
\* table; the source "LLM (General)" comes only with the intent general_chat
\* and the intent unknown only with the source "Agent Error".
C29_SourceIntent ==
    Returned =>
        /\ <<response.source, response.intent>> \in SourceIntentTable
        /\ response.source = "LLM (General)" => response.intent = general_chat
        /\ response.intent = unknown => response.source = "Agent Error"
        /\ response.source = "Agent Error" =>
                response.intent = unknown /\ response.answer = APOLOGY_ANSWER

\* a question classified simulate_gpa got the terminal apology
C29_Witness ==
    /\ Returned
    /\ Classified
    /\ EffectiveIntent = simulate_gpa
    /\ response.source = "Agent Error"
    /\ response.intent = unknown

\* determine_intent classified the question from a reply of the LLM
LlmClassified == Classified /\ prediction.path = "llm"

\* the intent a reply that parsed as a JSON object names, normalized
NamedIntent(raw) == IF raw.x.intent.has THEN NormalizeIntent(raw.x.intent.s) ELSE <<>>

\* C30: with the threshold 0.7 and the fallback intent query_rag, a
\* classification from a reply that did not parse (confidence at most 0.6) or
\* that names an intent outside the enum (confidence at most 0.5) is
\* overridden by the fallback; after a fallback retrieve_context is called
\* before any general_chat answer is generated; route branches on general_chat
\* only when the reply is a JSON object naming general_chat with a confidence
\* of at least 0.7; a keyword classification (0.95) never triggers the
\* fallback.
C30_FallbackOverride ==
    /\ (LlmClassified /\ TryRaises(raw_response)) =>
            /\ prediction.confidence \in {PARSE_DEFAULT_CONFIDENCE, OUT_OF_ENUM_CAP}
            /\ Branched => fallback_triggered
    /\ (LlmClassified /\ ~TryRaises(raw_response)
            /\ NamedIntent(raw_response) \notin valid_intents) =>
            /\ prediction.intent = general_chat
            /\ prediction.confidence <= OUT_OF_ENUM_CAP
            /\ Branched => fallback_triggered
    /\ (Branched /\ fallback_triggered) =>
            /\ pc = "branch" => intent = query_rag
            /\ pc \in {"general", "done"} => HasCall("retrieve_context")
            /\ \A i \in GenerationsOf({"general"}) :
                    \E j \in 1..(i - 1) : calls[j].op = "retrieve_context"
    /\ (Classified /\ pc = "branch" /\ intent = general_chat) =>
            /\ ~fallback_triggered
            /\ prediction.path = "llm"
            /\ ~TryRaises(raw_response)
            /\ NamedIntent(raw_response) = general_chat
            /\ prediction.confidence >= INTENT_FALLBACK_THRESHOLD
    /\ (Classified /\ prediction.path = "keyword") =>
            /\ prediction.confidence = KEYWORD_CONFIDENCE
            /\ Branched => ~fallback_triggered
            /\ pc = "branch" => intent = prediction.intent

\* a reply that is not JSON was overridden, retrieve_context found nothing
\* and the general_chat answer followed
C30_Witness ==
    /\ Returned
    /\ LlmClassified
    /\ raw_response = PyStr(Plain(<<"hello">>))
    /\ prediction.confidence = OUT_OF_ENUM_CAP
    /\ fallback_triggered
    /\ HasCall("retrieve_context")
    /\ response.source = "LLM (General)"

====
